---- MODULE Spec2Model ----
(***************************************************************************)
(* A model of the motan log decoding engine of klipper                     *)
(* (scripts/motan/readlog.py, scripts/motan/analyzers.py):                 *)
(*   JsonLogReader   - streaming decompression, 0x03 framing, JSON parsing *)
(*   JsonDispatcher  - per-queue buffering with a lookahead watermark      *)
(*   LogManager      - index scan / seek, handler memoisation              *)
(*   AnalyzerManager - dataset registry                                    *)
(* Times are modelled as integers (the code uses floats); one time unit    *)
(* of the model is one second of print time.                               *)
(***************************************************************************)
EXTENDS Integers, Sequences, FiniteSets, TLC

VARIABLES
    log_reader,     \* JsonDispatcher.log_reader : the JsonLogReader of <prefix>.json.gz
    index_reader,   \* LogManager.index_reader   : the JsonLogReader of <prefix>.index.gz
    queues,         \* JsonDispatcher.queues     : msg_id -> list of params
    last_read_time, \* JsonDispatcher.last_read_time
    is_eof,         \* JsonDispatcher.is_eof
    lm,             \* LogManager fields (start times, active_handlers, initial_status)
    am,             \* AnalyzerManager fields (raw_datasets, gen_datasets, datasets)
    call,           \* history: the last operation called and its outcome
    hist            \* history: what was read / returned so far

vars == <<log_reader, index_reader, queues, last_read_time, is_eof, lm, am, call, hist>>

---------------------------------------------------------------------------
(* Bounds of the model *)

\* longest decompressed byte stream of the reader specification
MaxBytes == 4
\* greatest number of compressed units of a file (besides the gzip header)
MaxUnits == 3
\* greatest number of bytes one compressed unit inflates to
MaxUnitLen == 2
\* compressed units returned by one file.read() (8192 bytes in the code)
ReadSize == 2

---------------------------------------------------------------------------
(* Generic helpers *)

Min(a, b) == IF a < b THEN a ELSE b
Max(a, b) == IF a > b THEN a ELSE b

IsPrefix(s, t) == Len(s) <= Len(t) /\ SubSeq(t, 1, Len(s)) = s

RECURSIVE Concat(_)
Concat(ss) == IF ss = <<>> THEN <<>> ELSE Head(ss) \o Concat(Tail(ss))

\* all sequences over S of length 0..n
SeqsUpTo(S, n) == UNION {[1..k -> S] : k \in 0..n}

---------------------------------------------------------------------------
(* Bytes, frames and JSON.                                                 *)
(* A byte of the decompressed stream is a natural number.  0x03 ends a     *)
(* frame.  The JSON text of a frame is modelled at token granularity: a    *)
(* byte stands for one JSON member, and json.loads accepts exactly the     *)
(* byte strings of the grammar below.                                      *)
(*   main log   : [q] params [toolhead.estimated_print_time]               *)
(*   index log  : idx estimated_print_time [print_time] file_position      *)
(*                (the idx byte also tells the configured kinematics)      *)

ETX == 3

\* the byte codes of the JSON members (the model's alphabet)
Tok == [junk |-> 0, idx |-> 4, time |-> 10, param |-> 30, q |-> 50, pos |-> 70,
        span |-> 20]
Junk == Tok.junk
IdxByte == Tok.idx
TimeBase == Tok.time
ParamBase == Tok.param
QBase == Tok.q
PosBase == Tok.pos
Span == Tok.span

\* the value a parsed object gives for a number member it does not have (None)
Absent == -1
\* json_msg.get('q') of an object without a "q" member (None)
NoQ == <<>>

IsTimeByte(b) == b >= TimeBase /\ b < TimeBase + Span
IsParamByte(b) == b >= ParamBase /\ b < ParamBase + Span
IsQByte(b) == b >= QBase /\ b < QBase + Span
IsPosByte(b) == b >= PosBase /\ b < PosBase + Span

\* the queue ids a "q" member can name
StatusId == <<"status">>
TrapqId == <<"trapq", ":", "toolhead">>
StepqId == <<"stepq", ":", "stepper_x">>
OtherId == <<"adxl345", ":", "probe">>
AngleId == <<"angle", ":", "sensor">>
QTable == <<StatusId, TrapqId, StepqId, OtherId, AngleId>>

ParseError == [kind |-> "error"]

MainMsg(q, p, t) ==
    [kind |-> "msg", q |-> q, params |-> p, toolhead_ept |-> t]
IndexMsg(kin, ept, pt, fp) ==
    [kind |-> "index", kinematics |-> kin, status_ept |-> ept, status_pt |-> pt,
     file_position |-> fp]

\* the printer kinematics an index record's configfile settings can name
KinTable == <<"cartesian", "corexy", "delta">>
IsIdxByte(b) == b >= IdxByte /\ b < IdxByte + Len(KinTable)

\* json.loads(msg)
JsonLoads(msg) ==
    LET n == Len(msg) IN
    CASE n = 1 /\ IsParamByte(msg[1]) ->
            MainMsg(NoQ, msg[1] - ParamBase, Absent)
      [] n = 2 /\ IsQByte(msg[1]) /\ msg[1] - QBase < Len(QTable) /\ IsParamByte(msg[2]) ->
            MainMsg(QTable[msg[1] - QBase + 1], msg[2] - ParamBase, Absent)
      [] n = 3 /\ IsQByte(msg[1]) /\ msg[1] - QBase < Len(QTable) /\ IsParamByte(msg[2])
               /\ IsTimeByte(msg[3]) ->
            MainMsg(QTable[msg[1] - QBase + 1], msg[2] - ParamBase, msg[3] - TimeBase)
      [] n = 3 /\ IsIdxByte(msg[1]) /\ IsTimeByte(msg[2]) /\ IsPosByte(msg[3]) ->
            IndexMsg(KinTable[msg[1] - IdxByte + 1], msg[2] - TimeBase, Absent,
                     msg[3] - PosBase)
      [] n = 4 /\ IsIdxByte(msg[1]) /\ IsTimeByte(msg[2]) /\ IsTimeByte(msg[3])
               /\ IsPosByte(msg[4]) ->
            IndexMsg(KinTable[msg[1] - IdxByte + 1], msg[2] - TimeBase,
                     msg[3] - TimeBase, msg[4] - PosBase)
      [] OTHER -> ParseError

\* seq.split(sep): the pieces between the separators, always at least one
RECURSIVE SplitOn(_, _)
SplitOn(seq, sep) ==
    IF \A i \in 1..Len(seq) : seq[i] # sep THEN <<seq>>
    ELSE LET i == CHOOSE j \in 1..Len(seq) :
                      seq[j] = sep /\ \A k \in 1..(j-1) : seq[k] # sep
         IN <<SubSeq(seq, 1, i - 1)>> \o SplitOn(SubSeq(seq, i + 1, Len(seq)), sep)

\* data.split(b'\x03')
SplitETX(data) == SplitOn(data, ETX)

---------------------------------------------------------------------------
(* The compressed file.  A file is a sequence of compressed units; a unit  *)
(* is the gzip header or a piece of deflate data that inflates to some     *)
(* (possibly no) bytes.  File offsets count units.                         *)

GzipHeader == [hdr |-> TRUE, out |-> <<>>]
DataUnit(bytes) == [hdr |-> FALSE, out |-> bytes]

\* zlib.decompressobj(wbits)
GzipWbits == 31
RawWbits == -15
Decompressobj(wbits) == [wbits |-> wbits]

ZlibError == [kind |-> "zliberror"]

\* comp.decompress(raw_data): the inflated bytes, or zlib.error when a raw
\* deflate context is fed the gzip header
RECURSIVE Inflate(_)
Inflate(raw) == IF raw = <<>> THEN <<>> ELSE Head(raw).out \o Inflate(Tail(raw))

Decompress(comp, raw) ==
    IF comp.wbits = RawWbits /\ \E i \in 1..Len(raw) : raw[i].hdr
    THEN [ok |-> FALSE, data |-> <<>>]
    ELSE [ok |-> TRUE, data |-> Inflate(raw)]

---------------------------------------------------------------------------
(* JsonLogReader *)

\* JsonLogReader.__init__
NewReader(file) ==
    [file |-> file, pos |-> 0, comp |-> Decompressobj(GzipWbits), msgs |-> << <<>> >>]

\* JsonLogReader.seek
ReaderSeek(r, pos) ==
    [r EXCEPT !.pos = pos, !.comp = Decompressobj(RawWbits)]

\* self.file.read(8192)
FileRead(r) == SubSeq(r.file, r.pos + 1, Min(r.pos + ReadSize, Len(r.file)))

None == [kind |-> "none"]
\* the NameError raised by logging.exception: readlog.py never imports logging
NameError == [kind |-> "nameerror"]

\* mutant: the partial frame buffered from the previous block is dropped
JoinParts_NoCarry(msgs, parts) == parts

\* parts[0] = msgs[0] + parts[0]; self.msgs = msgs = parts
JoinParts(msgs, parts) == <<msgs[1] \o parts[1]>> \o Tail(parts)

\* JsonLogReader.pull_msg: the reader after the call and what the call
\* returned (a parsed object or None) or raised
RECURSIVE ReaderPullMsg(_)
ReaderPullMsg(r) ==
    IF Len(r.msgs) > 1
    THEN LET msg == Head(r.msgs)
             r1 == [r EXCEPT !.msgs = Tail(@)]
             json_msg == JsonLoads(msg)
         IN IF json_msg = ParseError
            THEN [reader |-> r1, result |-> NameError, frame |-> msg]
            ELSE [reader |-> r1, result |-> json_msg, frame |-> msg]
    ELSE LET raw_data == FileRead(r)
             r1 == [r EXCEPT !.pos = @ + Len(raw_data)]
         IN IF raw_data = <<>>
            THEN [reader |-> r, result |-> None, frame |-> <<>>]
            ELSE LET data == Decompress(r.comp, raw_data) IN
                 IF ~data.ok
                 THEN [reader |-> r1, result |-> ZlibError, frame |-> <<>>]
                 ELSE LET parts == SplitETX(data.data)
                      IN ReaderPullMsg([r1 EXCEPT !.msgs = JoinParts(r.msgs, parts)])

---------------------------------------------------------------------------
(* JsonDispatcher *)

\* json_msg.get('q')
MsgQ(json_msg) == IF json_msg.kind = "msg" THEN json_msg.q ELSE NoQ

\* json_msg.get('toolhead', {}).get('estimated_print_time')
MsgToolheadTime(json_msg) ==
    IF json_msg.kind = "msg" THEN json_msg.toolhead_ept ELSE Absent

\* JsonDispatcher.add_handler
AddHandler(qs, msg_id) ==
    IF msg_id \notin DOMAIN qs THEN qs @@ (msg_id :> <<>>) ELSE qs

\* mutant: the watermark is set without the "pt is not None" test
UpdateReadTime_NoNoneTest(lrt, qid, json_msg) ==
    IF qid = StatusId THEN MsgToolheadTime(json_msg) ELSE lrt

\* the watermark after a record of queue qid was queued
UpdateReadTime(lrt, qid, json_msg) ==
    IF qid = StatusId /\ MsgToolheadTime(json_msg) # Absent
    THEN MsgToolheadTime(json_msg)
    ELSE lrt

\* mutant: the cutoff fires one time unit early
PastLookahead_Early(req_time, lrt) == req_time + 1 <= lrt

\* the lookahead cutoff test of pull_msg
PastLookahead(req_time, lrt) == req_time + 1 < lrt

\* mutant: a record is put at the head of its queue
Enqueue_AtHead(qs, qid, params) == [qs EXCEPT ![qid] = <<params>> \o @]

\* mq.append(params)
Enqueue(qs, qid, params) == [qs EXCEPT ![qid] = Append(@, params)]

\* a returned params value (as opposed to None or a raised error)
Returned(params) == [kind |-> "params", params |-> params]

\* JsonDispatcher.pull_msg(req_time, msg_id) on the dispatcher d =
\* [reader, queues, last_read_time, is_eof]; d.reads (history) lists, for
\* every log_reader.pull_msg() call made, the watermark at that moment and
\* what the reader gave
RECURSIVE DispatcherPullMsg(_, _, _)
DispatcherPullMsg(d, req_time, msg_id) ==
    LET q == d.queues[msg_id] IN
    IF q # <<>>
    THEN [d |-> [d EXCEPT !.queues[msg_id] = Tail(q)], result |-> Returned(Head(q))]
    ELSE IF PastLookahead(req_time, d.last_read_time)
    THEN [d |-> d, result |-> None]
    ELSE LET out == ReaderPullMsg(d.reader)
             json_msg == out.result
             d1 == [d EXCEPT !.reader = out.reader,
                             !.reads = Append(@, [lrt |-> d.last_read_time,
                                                  got |-> json_msg])]
         IN IF json_msg = None
            THEN [d |-> [d1 EXCEPT !.is_eof = TRUE], result |-> None]
            ELSE IF json_msg \in {NameError, ZlibError}
            THEN [d |-> d1, result |-> json_msg]
            ELSE LET qid == MsgQ(json_msg) IN
                 IF qid \notin DOMAIN d.queues
                 THEN DispatcherPullMsg(d1, req_time, msg_id)
                 ELSE DispatcherPullMsg(
                        [d1 EXCEPT !.queues = Enqueue(@, qid, json_msg.params),
                                   !.last_read_time =
                                       UpdateReadTime(@, qid, json_msg)],
                        req_time, msg_id)

\* JsonDispatcher.check_end_of_data
CheckEndOfData == is_eof /\ \A k \in DOMAIN queues : queues[k] = <<>>

---------------------------------------------------------------------------
(* LogManager: index and seek *)

\* mutant: the scan targets the requested time itself, without the lookback
SeekTarget_NoLookback(initial_start_time, req_start_time) == req_start_time

\* seek_time = max(self.initial_start_time, req_start_time - 1.)
SeekTarget(initial_start_time, req_start_time) ==
    Max(initial_start_time, req_start_time - 1)

\* ptime = max(th['estimated_print_time'], th.get('print_time', 0.))
EffectiveTime(fmsg) ==
    Max(fmsg.status_ept, IF fmsg.status_pt = Absent THEN 0 ELSE fmsg.status_pt)

\* LogManager.setup_index on [lm, index_reader]; fmsg (history) is what the
\* index reader gave.  Subscripting a missing or malformed first record
\* raises, and leaves the manager as it was.
SetupIndex(l, ir) ==
    LET out == ReaderPullMsg(ir)
        fmsg == out.result
    IN IF fmsg.kind # "index"
       THEN [lm |-> l, index_reader |-> out.reader, fmsg |-> fmsg, ok |-> FALSE]
       ELSE [lm |-> [l EXCEPT !.initial_status =
                                   [toolhead_ept |-> fmsg.status_ept,
                                    toolhead_pt |-> fmsg.status_pt,
                                    kinematics |-> fmsg.kinematics],
                              !.initial_start_time = fmsg.status_ept,
                              !.start_time = fmsg.status_ept],
             index_reader |-> out.reader, fmsg |-> fmsg, ok |-> TRUE]

\* the scan loop of LogManager.seek_time: the index reader after the loop,
\* the file_position it ends with, and (history) the records it read
RECURSIVE ScanIndex(_, _, _, _)
ScanIndex(ir, seek_time, file_position, read) ==
    LET out == ReaderPullMsg(ir)
        fmsg == out.result
    IN IF fmsg = None
       THEN [index_reader |-> out.reader, file_position |-> file_position,
             read |-> read, ok |-> TRUE]
       ELSE IF fmsg.kind # "index"
       THEN [index_reader |-> out.reader, file_position |-> file_position,
             read |-> Append(read, fmsg), ok |-> FALSE]
       ELSE IF EffectiveTime(fmsg) > seek_time
       THEN [index_reader |-> out.reader, file_position |-> file_position,
             read |-> Append(read, fmsg), ok |-> TRUE]
       ELSE ScanIndex(out.reader, seek_time, fmsg.file_position, Append(read, fmsg))

\* LogManager.seek_time(req_time) on [lm, index_reader, log_reader]
SeekTime(l, ir, lr, req_time) ==
    LET req_start_time == l.initial_start_time + req_time
        l1 == [l EXCEPT !.start_time = req_start_time]
        seek_time == SeekTarget(l.initial_start_time, req_start_time)
        scan == ScanIndex(ir, seek_time, 0, <<>>)
    IN [lm |-> l1, index_reader |-> scan.index_reader,
        log_reader |-> IF scan.ok /\ scan.file_position # 0
                       THEN ReaderSeek(lr, scan.file_position) ELSE lr,
        seek_time |-> seek_time, read |-> scan.read, ok |-> scan.ok]

---------------------------------------------------------------------------
(* Dataset names.  A name is a sequence of tokens: the separator           *)
(* characters ":", "-" and " ", and words that hold none of them (the axis *)
(* letters of an adxl345 name are one token each).                         *)

RECURSIVE LStrip(_)
LStrip(name) == IF name # <<>> /\ Head(name) = " " THEN LStrip(Tail(name)) ELSE name

RECURSIVE RStrip(_)
RStrip(name) ==
    IF name # <<>> /\ name[Len(name)] = " "
    THEN RStrip(SubSeq(name, 1, Len(name) - 1)) ELSE name

\* name.strip()
Strip(name) == RStrip(LStrip(name))

\* sep.join(parts)
RECURSIVE Join(_, _)
Join(parts, sep) ==
    IF parts = <<>> THEN <<>>
    ELSE IF Len(parts) = 1 THEN parts[1]
    ELSE parts[1] \o <<sep>> \o Join(Tail(parts), sep)

\* a part of a name as a dictionary key: the word it consists of
PartKey(part) == IF Len(part) = 1 THEN part[1] ELSE "?"

\* LogHandlers: ParametersMsgId and ParametersTotal of each handler class
LogHandlers ==
    [trapq |-> [ParametersMsgId |-> 2, ParametersTotal |-> 3],
     stepq |-> [ParametersMsgId |-> 2, ParametersTotal |-> 2],
     adxl345 |-> [ParametersMsgId |-> 2, ParametersTotal |-> 3],
     angle |-> [ParametersMsgId |-> 2, ParametersTotal |-> 2]]

\* AHandlers
AHandlers == {"derivative", "kin", "deviation"}

UnitsPosition == "Position (mm)"
UnitsVelocity == "Velocity (mm/s)"
UnitsAccel == "Acceleration (mm/s^2)"

\* a failed call: the state it leaves and the error raised
Raise(st, err) == [st |-> st, ok |-> FALSE, hdl |-> [obj |-> 0], err |-> err]
Return(st, hdl) == [st |-> st, ok |-> TRUE, hdl |-> hdl, err |-> ""]

\* a new description dict {label, units, func} of handler object hobj
NewDescription(st, label, units, hobj, method, axis) ==
    Return([st EXCEPT !.lm.next_obj = @ + 1],
           [obj |-> st.lm.next_obj, label |-> label, units |-> units,
            func |-> [hdl |-> hobj, method |-> method, axis |-> axis]])

\* HandleTrapQ.get_description: ptypes
TrapqAxisOf(sel) ==
    CASE sel \in {"axis_x", "axis_x_velocity", "axis_x_accel"} -> 0
      [] sel \in {"axis_y", "axis_y_velocity", "axis_y_accel"} -> 1
      [] sel \in {"axis_z", "axis_z_velocity", "axis_z_accel"} -> 2
      [] OTHER -> Absent

TrapqPtypes ==
    {"velocity", "accel"}
    \cup {"axis_x", "axis_y", "axis_z"}
    \cup {"axis_x_velocity", "axis_y_velocity", "axis_z_velocity"}
    \cup {"axis_x_accel", "axis_y_accel", "axis_z_accel"}

\* HandleTrapQ.get_description
TrapqGetDescription(st, hobj, name_parts) ==
    LET sel == PartKey(name_parts[3]) IN
    IF sel \notin TrapqPtypes
    THEN Raise(st, "Unknown trapq data selection")
    ELSE CASE sel = "velocity" ->
                NewDescription(st, <<name_parts[2], "velocity">>, UnitsVelocity,
                               hobj, "pull_velocity", Absent)
           [] sel = "accel" ->
                NewDescription(st, <<name_parts[2], "acceleration">>, UnitsAccel,
                               hobj, "pull_accel", Absent)
           [] sel \in {"axis_x", "axis_y", "axis_z"} ->
                NewDescription(st, <<name_parts[2], "axis position">>, UnitsPosition,
                               hobj, "pull_axis_position", TrapqAxisOf(sel))
           [] sel \in {"axis_x_velocity", "axis_y_velocity", "axis_z_velocity"} ->
                NewDescription(st, <<name_parts[2], "axis velocity">>, UnitsVelocity,
                               hobj, "pull_axis_velocity", TrapqAxisOf(sel))
           [] OTHER ->
                NewDescription(st, <<name_parts[2], "axis acceleration">>, UnitsAccel,
                               hobj, "pull_axis_accel", TrapqAxisOf(sel))

\* HandleStepQ.get_description
StepqGetDescription(st, hobj, name_parts) ==
    NewDescription(st, <<name_parts[2], "position">>, UnitsPosition,
                   hobj, "pull_position", Absent)

\* aname in 'xyz': aname is a substring of "xyz"
InXYZ(aname) ==
    \E i \in 0..3 : i + Len(aname) <= 3 /\ SubSeq(<<"x", "y", "z">>, i + 1, i + Len(aname)) = aname

\* 'xyz'.index(aname)
IndexInXYZ(aname) ==
    CHOOSE i \in 0..3 :
        /\ i + Len(aname) <= 3
        /\ SubSeq(<<"x", "y", "z">>, i + 1, i + Len(aname)) = aname
        /\ \A j \in 0..(i-1) : SubSeq(<<"x", "y", "z">>, j + 1, j + Len(aname)) # aname

\* HandleADXL345.get_description
Adxl345GetDescription(st, hobj, name_parts) ==
    LET aname == name_parts[3] IN
    IF ~InXYZ(aname)
    THEN Raise(st, "Unknown adxl345 data selection")
    ELSE NewDescription(st, <<name_parts[2] \o aname, "acceleration">>, UnitsAccel,
                        hobj, "pull_accel", IndexInXYZ(aname))

\* HandleAngle.get_description
AngleGetDescription(st, hobj, name_parts) ==
    NewDescription(st, <<name_parts[2], "position">>, UnitsPosition,
                   hobj, "pull_position", Absent)

\* hdl.get_description(parts)
GetDescription(st, hdl, parts) ==
    CASE hdl.cls = "trapq" -> TrapqGetDescription(st, hdl.obj, parts)
      [] hdl.cls = "stepq" -> StepqGetDescription(st, hdl.obj, parts)
      [] hdl.cls = "adxl345" -> Adxl345GetDescription(st, hdl.obj, parts)
      [] OTHER -> AngleGetDescription(st, hdl.obj, parts)

---------------------------------------------------------------------------
(* The log data handlers' query functions.  The params of a queue's record *)
(* is the number of a block in the handler's catalogue of blocks (below);  *)
(* a block is the params object a handler reads its members from.  Times   *)
(* are whole seconds.  A query returns a number n/d, written Value(n, d),  *)
(* or raises.  A running query is the context c = [h, d, pulls, lookups]:  *)
(* the handler's fields, the dispatcher, and (history) what each           *)
(* jdispatch.pull_msg of the query returned and what each bracket lookup   *)
(* of HandleStepQ was evaluated on.                                        *)

IndexError == [kind |-> "indexerror"]
ZeroDivisionError == [kind |-> "zerodivision"]

Value(n, d) == [kind |-> "value", num |-> n, den |-> d]

\* n / d
Frac(n, d) ==
    IF d = 0 THEN ZeroDivisionError
    ELSE IF d < 0 THEN Value(-n, -d) ELSE Value(n, d)

\* a query that raised err, or returned result
QRaise(c, err) == [c |-> c, result |-> err]
QReturn(c, result) == [c |-> c, result |-> result]

\* the context after a pull_msg that gave out
QPulled(c, out) ==
    [c |-> [c EXCEPT !.d = out.d, !.pulls = Append(@, out.result)],
     result |-> out.result]

\* self.jdispatch.pull_msg(req_time, self.msg_id) within a query
QPull(c, req_time) == QPulled(c, DispatcherPullMsg(c.d, req_time, c.h.msg_id))

\* a trapq move (print_time, move_t, start_v, accel, start_pos, axes_r)
Move(print_time, move_t, start_v, accel, start_pos, axes_r) ==
    [print_time |-> print_time, move_t |-> move_t, start_v |-> start_v,
     accel |-> accel, start_pos |-> start_pos, axes_r |-> axes_r]

\* the blocks a trapq record can carry: jmsg['data'] is a list of moves
TrapqBlocks ==
    << [data |-> <<Move(1, 1, 2, 0, <<0, 0, 0>>, <<1, 0, 0>>)>>],
       [data |-> <<Move(2, 1, 2, 2, <<2, 0, 0>>, <<1, 0, 0>>),
                   Move(5, 1, 4, -4, <<5, 0, 0>>, <<1, 0, 0>>)>>],
       [data |-> <<Move(3, 0, 0, 0, <<5, 0, 0>>, <<0, 1, 0>>)>>],
       [data |-> <<>>] >>

\* HandleTrapQ.__init__
TrapqInit ==
    [cur_data |-> <<Move(0, 0, 0, 0, <<0, 0, 0>>, <<0, 0, 0>>)>>, data_pos |-> 0]

\* mutant: a move is taken as soon as it has started
MoveCovers_Started(move, req_time) == req_time >= move.print_time

\* req_time <= print_time + move_t
MoveCovers(move, req_time) == req_time <= move.print_time + move.move_t

\* HandleTrapQ._find_move(req_time); data_pos is the local of that name.
\* Returns [c, result, move, in_range]; result is None unless it raised.
RECURSIVE FindMove(_, _, _)
RECURSIVE FindMoveRefill(_, _, _)

\* the end of _find_move's loop body, once pull_msg gave out
FindMoveRefill(out, move, req_time) ==
    IF out.result = None
    THEN [c |-> out.c, result |-> None, move |-> move, in_range |-> FALSE]
    ELSE IF out.result.kind # "params"
    THEN [c |-> out.c, result |-> out.result, move |-> move, in_range |-> FALSE]
    ELSE FindMove([out.c EXCEPT
                      !.h.cur_data = TrapqBlocks[out.result.params].data,
                      !.h.data_pos = 0],
                  req_time, 0)

FindMove(c, req_time, data_pos) ==
    IF data_pos >= Len(c.h.cur_data)
    THEN [c |-> c, result |-> IndexError, move |-> TrapqInit.cur_data[1],
          in_range |-> FALSE]
    ELSE LET move == c.h.cur_data[data_pos + 1] IN
         IF MoveCovers(move, req_time)
         THEN [c |-> c, result |-> None, move |-> move,
               in_range |-> req_time >= move.print_time]
         ELSE IF data_pos + 1 < Len(c.h.cur_data)
         THEN FindMove([c EXCEPT !.h.data_pos = data_pos + 1], req_time, data_pos + 1)
         ELSE FindMoveRefill(QPull(c, req_time), move, req_time)

\* mtime = max(0., min(move_t, req_time - print_time))
ClampedTime(move, req_time) == Max(0, Min(move.move_t, req_time - move.print_time))

\* start_pos[axis] + axes_r[axis] * (start_v + .5 * accel * mtime) * mtime
PositionAt(move, mtime, axis) ==
    Value(2 * move.start_pos[axis + 1]
            + move.axes_r[axis + 1] * (2 * move.start_v + move.accel * mtime) * mtime,
          2)

\* "if not in_range: return 0." before a value is computed from the move
TrapqGuard(found, value) == IF found.in_range THEN value ELSE Value(0, 1)

\* what a pull_* method of HandleTrapQ makes of the move _find_move found
TrapqResult(found, method, axis, req_time) ==
    LET move == found.move
        val ==
          CASE method = "pull_axis_position" ->
                 PositionAt(move, ClampedTime(move, req_time), axis)
            [] method = "pull_axis_velocity" ->
                 TrapqGuard(found,
                    Value((move.start_v + move.accel * (req_time - move.print_time))
                            * move.axes_r[axis + 1], 1))
            [] method = "pull_axis_accel" ->
                 TrapqGuard(found, Value(move.accel * move.axes_r[axis + 1], 1))
            [] method = "pull_velocity" ->
                 TrapqGuard(found,
                    Value(move.start_v + move.accel * (req_time - move.print_time), 1))
            [] OTHER -> TrapqGuard(found, Value(move.accel, 1))
    IN [c |-> found.c,
        result |-> IF found.result # None THEN found.result ELSE val,
        move |-> move, in_range |-> found.in_range]

\* the pull_* methods of HandleTrapQ
TrapqQuery(c, method, axis, req_time) ==
    TrapqResult(FindMove(c, req_time, c.h.data_pos), method, axis, req_time)

\* a stepq block: the members HandleStepQ._pull_block reads; data is a list
\* of (interval, count, add)
StepBlock(first_time, last_time, first_clock, last_clock, step_dist, start_pos, data) ==
    [first_step_time |-> first_time, last_step_time |-> last_time,
     first_clock |-> first_clock, last_clock |-> last_clock,
     step_distance |-> step_dist, start_position |-> start_pos, data |-> data]

\* the blocks a stepq record can carry (step distances are even and the
\* clock differences divide the time differences, so that .5 * qs_dist and
\* tdiff / cdiff are whole numbers of the units used here)
StepqBlocks ==
    << StepBlock(1, 3, 100, 300, 2, 0, << <<100, 3, 0>> >>),
       StepBlock(4, 5, 400, 500, 2, 6, << <<50, -2, 50>> >>),
       StepBlock(2, 5, 200, 200, 2, 0, << <<10, 0, 0>> >>),
       StepBlock(2, 5, 200, 200, 2, 0, <<>>),
       StepBlock(2, 3, 2000, 3000, 2, 0, << <<5, 2, 0>>, <<995, 1, 0>> >>) >>

\* the step times of HandleStepQ are kept in milliseconds
Ms(t) == 1000 * t
\* smooth_time = 0.010
SmoothTime == 10
\* req_time + .1
FallbackDelay == 100

Step(time, half_pos, pos) == [time |-> time, half_pos |-> half_pos, pos |-> pos]

\* HandleStepQ.__init__
StepqInit == [step_data |-> <<Step(0, 0, 0), Step(0, 0, 0)>>, data_pos |-> 0]

\* "for i in range(count)" of one (interval, count, add) entry; s is
\* [steps, step_clock, step_pos]
RECURSIVE ExpandEntry(_, _, _, _, _, _)
ExpandEntry(s, interval, count, add, qs_dist, blk) ==
    IF count <= 0 THEN s
    ELSE LET step_clock == s.step_clock + interval
             cdiff == blk.last_clock - blk.first_clock
             inv_freq == IF cdiff # 0
                         THEN Ms(blk.last_step_time - blk.first_step_time) \div cdiff
                         ELSE 0
             step_time == Ms(blk.first_step_time)
                            + (step_clock - blk.first_clock) * inv_freq
             step_halfpos == s.step_pos + qs_dist \div 2
             step_pos == s.step_pos + qs_dist
         IN ExpandEntry([steps |-> Append(s.steps, Step(step_time, step_halfpos, step_pos)),
                         step_clock |-> step_clock, step_pos |-> step_pos],
                        interval + add, count - 1, add, qs_dist, blk)

\* "for interval, raw_count, add in jmsg['data']"
RECURSIVE ExpandData(_, _, _)
ExpandData(s, data, blk) ==
    IF data = <<>> THEN s
    ELSE LET e == Head(data)
             neg == e[2] < 0
         IN ExpandData(ExpandEntry(s, e[1], IF neg THEN -e[2] ELSE e[2], e[3],
                                   IF neg THEN -blk.step_distance
                                   ELSE blk.step_distance, blk),
                       Tail(data), blk)

\* the "while 1" of HandleStepQ._pull_block, then the processing of the block
RECURSIVE PullBlockRead(_, _)
RECURSIVE PullBlockTake(_, _)

PullBlockRead(c, req_time) == PullBlockTake(QPull(c, req_time), req_time)

\* the loop body of _pull_block once pull_msg gave out, and what follows it
PullBlockTake(out, req_time) ==
    IF out.result = None
    THEN IF out.c.h.step_data = <<>> THEN QRaise(out.c, IndexError)
         ELSE LET last == out.c.h.step_data[1] IN
              QReturn([out.c EXCEPT !.h.step_data =
                          Append(@, Step(Ms(req_time) + FallbackDelay,
                                         last.pos, last.pos))],
                      None)
    ELSE IF out.result.kind # "params" THEN QRaise(out.c, out.result)
    ELSE LET blk == StepqBlocks[out.result.params] IN
         IF ~(req_time <= blk.last_step_time) THEN PullBlockRead(out.c, req_time)
         ELSE IF blk.data = <<>> THEN QRaise(out.c, IndexError)
         ELSE LET s == ExpandData([steps |-> out.c.h.step_data,
                                   step_clock |-> blk.first_clock - blk.data[1][1],
                                   step_pos |-> blk.start_position],
                                  blk.data, blk)
              IN QReturn([out.c EXCEPT !.h.step_data = s.steps], None)

\* HandleStepQ._pull_block(req_time)
PullBlock(c, req_time) ==
    LET step_data == c.h.step_data
        kept == IF step_data = <<>> THEN <<>> ELSE <<step_data[Len(step_data)]>>
    IN PullBlockRead([c EXCEPT !.h.step_data = kept, !.h.data_pos = 0], req_time)

\* mutant: outside the smoothing window's first half the settled position
\* is held up to the next step
Smoothed_Hold(last, next, t, smooth) ==
    LET rtdiff == t - last.time
        stime == next.time - last.time
        half == smooth \div 2
    IN IF stime <= smooth
       THEN Frac(last.half_pos * stime + rtdiff * (next.half_pos - last.half_pos),
                 stime)
       ELSE IF rtdiff < half
       THEN Frac(last.half_pos * half + rtdiff * (last.pos - last.half_pos), half)
       ELSE Value(last.pos, 1)

\* "Perform step smoothing" of pull_position: the value at the time t within
\* the bracket of the steps last and next; smooth is smooth_time, in the
\* unit of the step times
Smoothed(last, next, t, smooth) ==
    LET rtdiff == t - last.time
        stime == next.time - last.time
        half == smooth \div 2
        rtnext == next.time - t
    IN IF stime <= smooth
       THEN Frac(last.half_pos * stime + rtdiff * (next.half_pos - last.half_pos),
                 stime)
       ELSE IF rtdiff < half
       THEN Frac(last.half_pos * half + rtdiff * (last.pos - last.half_pos), half)
       ELSE IF rtnext < half
       THEN Frac(next.half_pos * half + rtnext * (last.pos - next.half_pos), half)
       ELSE Value(last.pos, 1)

\* HandleStepQ.pull_position(req_time)
RECURSIVE StepqQuery(_, _)
RECURSIVE StepqRetry(_, _)
RECURSIVE StepqBracket(_, _)

\* "self._pull_block(req_time); continue"
StepqRetry(out, req_time) ==
    IF out.result # None THEN out ELSE StepqQuery(out.c, req_time)

\* "Find steps before and after req_time": the bracket lookup
\* step_data[data_pos + 1] and what follows it in the loop body
StepqBracket(c, req_time) ==
    LET data_pos == c.h.data_pos
        step_data == c.h.step_data
    IN IF data_pos + 1 >= Len(step_data) THEN QRaise(c, IndexError)
       ELSE LET next == step_data[data_pos + 2]
                last == step_data[data_pos + 1]
            IN IF Ms(req_time) >= next.time
               THEN IF data_pos + 2 < Len(step_data)
                    THEN StepqQuery([c EXCEPT !.h.data_pos = data_pos + 1], req_time)
                    ELSE StepqRetry(PullBlock(c, req_time), req_time)
               ELSE QReturn(c, Smoothed(last, next, Ms(req_time), SmoothTime))

\* one turn of the "while 1" of pull_position; lookups (history) takes the
\* buffer and the cursor the bracket lookup of this turn is evaluated on
StepqQuery(c, req_time) ==
    StepqBracket([c EXCEPT !.lookups =
                     Append(@, [step_data |-> c.h.step_data,
                                data_pos |-> c.h.data_pos])],
                 req_time)

\* the blocks an adxl345 record can carry: data is a list of (time, x, y, z)
Adxl345Blocks ==
    << [data |-> << <<1, 0, 2, 0>>, <<3, 10, 2, 0>> >>],
       [data |-> << <<4, 20, 2, 0>> >>],
       [data |-> <<>>] >>

\* HandleADXL345.__init__
Adxl345Init ==
    [next_accel_time |-> 0, last_accel_time |-> 0,
     next_accel |-> <<0, 0, 0>>, last_accel |-> <<0, 0, 0>>,
     cur_data |-> <<>>, data_pos |-> 0]

\* last + (req_time - last_time) * (next - last) / (next_time - last_time)
Interpolate(last, next, last_time, next_time, req_time) ==
    Frac(last * (next_time - last_time) + (req_time - last_time) * (next - last),
         next_time - last_time)

\* HandleADXL345.pull_accel(req_time, axis)
RECURSIVE Adxl345Query(_, _, _)
RECURSIVE Adxl345Refill(_, _, _)

\* "Read next data block" of pull_accel, once pull_msg gave out
Adxl345Refill(out, axis, req_time) ==
    IF out.result = None THEN QReturn(out.c, Value(0, 1))
    ELSE IF out.result.kind # "params" THEN QRaise(out.c, out.result)
    ELSE Adxl345Query([out.c EXCEPT
                          !.h.cur_data = Adxl345Blocks[out.result.params].data,
                          !.h.data_pos = 0],
                      axis, req_time)

Adxl345Query(c, axis, req_time) ==
    LET h == c.h IN
    IF req_time <= h.next_accel_time
    THEN QReturn(c, Interpolate(h.last_accel[axis + 1], h.next_accel[axis + 1],
                                h.last_accel_time, h.next_accel_time, req_time))
    ELSE IF h.data_pos >= Len(h.cur_data)
    THEN Adxl345Refill(QPull(c, req_time), axis, req_time)
    ELSE LET sample == h.cur_data[h.data_pos + 1] IN
         Adxl345Query([c EXCEPT !.h.last_accel = h.next_accel,
                                !.h.last_accel_time = h.next_accel_time,
                                !.h.next_accel_time = sample[1],
                                !.h.next_accel = <<sample[2], sample[3], sample[4]>>,
                                !.h.data_pos = h.data_pos + 1],
                      axis, req_time)

\* the blocks an angle record can carry: data is a list of (time, angle)
AngleBlocks ==
    << [data |-> << <<1, 0>>, <<3, 10>> >>],
       [data |-> << <<4, 20>> >>],
       [data |-> <<>>] >>

\* self.angle_dist = 40. / 65536, as numerator and denominator
AngleDist == [num |-> 40, den |-> 65536]

\* HandleAngle.__init__
AngleInit ==
    [next_angle_time |-> 0, last_angle_time |-> 0, next_angle |-> 0,
     last_angle |-> 0, cur_data |-> <<>>, data_pos |-> 0]

\* value * self.angle_dist
Scaled(value) ==
    IF value.kind # "value" THEN value
    ELSE Value(value.num * AngleDist.num, value.den * AngleDist.den)

\* HandleAngle.pull_position(req_time)
RECURSIVE AngleQuery(_, _)
RECURSIVE AngleRefill(_, _)

\* "Read next data block" of pull_position, once pull_msg gave out
AngleRefill(out, req_time) ==
    IF out.result = None
    THEN QReturn(out.c, Scaled(Value(out.c.h.next_angle, 1)))
    ELSE IF out.result.kind # "params" THEN QRaise(out.c, out.result)
    ELSE AngleQuery([out.c EXCEPT
                        !.h.cur_data = AngleBlocks[out.result.params].data,
                        !.h.data_pos = 0],
                    req_time)

AngleQuery(c, req_time) ==
    LET h == c.h IN
    IF req_time <= h.next_angle_time
    THEN QReturn(c, Scaled(Interpolate(h.last_angle, h.next_angle,
                                       h.last_angle_time, h.next_angle_time,
                                       req_time)))
    ELSE IF h.data_pos >= Len(h.cur_data)
    THEN AngleRefill(QPull(c, req_time), req_time)
    ELSE LET sample == h.cur_data[h.data_pos + 1] IN
         AngleQuery([c EXCEPT !.h.last_angle = h.next_angle,
                              !.h.last_angle_time = h.next_angle_time,
                              !.h.next_angle_time = sample[1],
                              !.h.next_angle = sample[2],
                              !.h.data_pos = h.data_pos + 1],
                    req_time)

\* the fields a handler class's __init__ sets, beside msg_id and jdispatch
HandlerInit(cls) ==
    CASE cls = "trapq" -> TrapqInit
      [] cls = "stepq" -> StepqInit
      [] cls = "adxl345" -> Adxl345Init
      [] OTHER -> AngleInit

\* a call func(req_time) of a description's query function, on the handler
\* object hobj = [obj, cls, msg_id, state] and the dispatcher d.  Returns
\* [hobj, d, result, pulls, lookups] and, of a trapq query, the move found.
QueryContext(hobj, d) ==
    [h |-> hobj.state @@ [msg_id |-> hobj.msg_id], d |-> d, pulls |-> <<>>,
     lookups |-> <<>>]

QueryOutcome(hobj, out) ==
    [hobj |-> [hobj EXCEPT !.state = [f \in DOMAIN hobj.state |-> out.c.h[f]]],
     d |-> out.c.d, result |-> out.result, pulls |-> out.c.pulls,
     lookups |-> out.c.lookups,
     found |-> IF hobj.cls = "trapq"
               THEN [move |-> out.move, in_range |-> out.in_range]
               ELSE [move |-> TrapqInit.cur_data[1], in_range |-> FALSE]]

HandlerQuery(hobj, d, func, req_time) ==
    QueryOutcome(hobj,
        CASE hobj.cls = "trapq" ->
                TrapqQuery(QueryContext(hobj, d), func.method, func.axis, req_time)
          [] hobj.cls = "stepq" -> StepqQuery(QueryContext(hobj, d), req_time)
          [] hobj.cls = "adxl345" ->
                Adxl345Query(QueryContext(hobj, d), func.axis, req_time)
          [] OTHER -> AngleQuery(QueryContext(hobj, d), req_time))

---------------------------------------------------------------------------
(* LogManager.setup_dataset.  The state st of a setup is                   *)
(* [lm, queues, am] and the history of handler constructions, add_handler  *)
(* calls and first returns.  A dict is a sequence of [key, val] items in   *)
(* insertion order.                                                        *)

NotFound == [found |-> FALSE, val |-> [obj |-> 0]]

\* dict.get(key)
RECURSIVE DictGet(_, _)
DictGet(dict, key) ==
    IF dict = <<>> THEN NotFound
    ELSE IF Head(dict).key = key THEN [found |-> TRUE, val |-> Head(dict).val]
    ELSE DictGet(Tail(dict), key)

\* dict[key] = val
DictSet(dict, key, val) ==
    IF \E i \in 1..Len(dict) : dict[i].key = key
    THEN [i \in 1..Len(dict) |->
            IF dict[i].key = key THEN [key |-> key, val |-> val] ELSE dict[i]]
    ELSE Append(dict, [key |-> key, val |-> val])

DictKeys(dict) == {dict[i].key : i \in 1..Len(dict)}

\* mutant: the memo of handlers is never hit
ActiveHandler_NoMemo(l, msg_id) == NotFound

\* self.active_handlers.get(msg_id)
ActiveHandler(l, msg_id) == DictGet(l.active_handlers, msg_id)

\* LogManager.setup_dataset(name)
LmSetupDataset(st, name) ==
    LET parts == SplitOn(name, ":")
        kind == PartKey(parts[1])
    IN IF kind \notin DOMAIN LogHandlers
       THEN Raise(st, "Unknown dataset")
       ELSE IF Len(parts) # LogHandlers[kind].ParametersTotal
       THEN Raise(st, "Invalid number of parameters")
       ELSE LET msg_id == Join(SubSeq(parts, 1, LogHandlers[kind].ParametersMsgId), ":")
                got == ActiveHandler(st.lm, msg_id)
                new == [obj |-> st.lm.next_obj, cls |-> kind, msg_id |-> msg_id,
                        state |-> HandlerInit(kind)]
                st1 == IF got.found THEN st
                       ELSE [st EXCEPT
                               !.lm.next_obj = @ + 1,
                               !.lm.active_handlers = DictSet(@, msg_id, new),
                               !.queues = AddHandler(@, msg_id),
                               !.created = Append(@, new),
                               !.add_calls = Append(@, msg_id)]
                hdl == IF got.found THEN got.val ELSE new
            IN GetDescription(st1, hdl, parts)

---------------------------------------------------------------------------
(* AnalyzerManager.setup_dataset and the analyzers' constructors *)

\* mutant: only the raw datasets are looked up
LookupDataset_RawOnly(a, name) == DictGet(a.raw_datasets, name)

\* the two membership tests that open AnalyzerManager.setup_dataset
LookupDataset(a, name) ==
    IF DictGet(a.raw_datasets, name).found THEN DictGet(a.raw_datasets, name)
    ELSE DictGet(a.gen_datasets, name)

\* mutant: the dataset is registered without an output array
Register_NoArray(st, which, name, hdl) ==
    Return([st EXCEPT
              !.am.raw_datasets = IF which = "raw" THEN DictSet(@, name, hdl) ELSE @,
              !.am.gen_datasets = IF which = "gen" THEN DictSet(@, name, hdl) ELSE @,
              !.first_ret = IF DictGet(@, name).found THEN @ ELSE DictSet(@, name, hdl)],
           hdl)

\* self.raw_datasets[name] = hdl (or gen_datasets); self.datasets[name] = [];
\* return hdl
Register(st, which, name, hdl) ==
    Return([st EXCEPT
              !.am.raw_datasets = IF which = "raw" THEN DictSet(@, name, hdl) ELSE @,
              !.am.gen_datasets = IF which = "gen" THEN DictSet(@, name, hdl) ELSE @,
              !.am.datasets = DictSet(@, name, <<>>),
              !.first_ret = IF DictGet(@, name).found THEN @ ELSE DictSet(@, name, hdl)],
           hdl)

\* a new analyzer object
NewAnalyzer(obj, cls, source1, source2, generate_data) ==
    [obj |-> obj, cls |-> cls, source1 |-> source1, source2 |-> source2,
     generate_data |-> generate_data]

TrapqAxisName(letter) == <<"trapq", ":", "toolhead", ":">> \o <<letter>>

\* mutant: every kinematics is taken as supported
KinSupported_Any(kin) == TRUE

\* kin in ['cartesian', 'corexy']
KinSupported(kin) == kin \in {"cartesian", "corexy"}

RECURSIVE AmSetupDataset(_, _)
RECURSIVE GenDerivativeInit(_, _)
RECURSIVE GenKinematicPositionInit(_, _)
RECURSIVE GenDeviationInit(_, _)

\* GenDerivative.__init__(amanager, params)
GenDerivativeInit(st, params) ==
    LET obj == st.lm.next_obj
        r == AmSetupDataset([st EXCEPT !.lm.next_obj = @ + 1], params)
    IN IF ~r.ok THEN r
       ELSE Return(r.st, NewAnalyzer(obj, "derivative", params, <<>>, "derivative"))

\* GenKinematicPosition.__init__(amanager, params)
GenKinematicPositionInit(st, params) ==
    LET obj == st.lm.next_obj
        st1 == [st EXCEPT !.lm.next_obj = @ + 1]
        kin == st.lm.initial_status.kinematics
    IN IF ~KinSupported(kin)
       THEN Raise(st1, "Unsupported kinematics")
       ELSE IF params \notin {<<"stepper_x">>, <<"stepper_y">>, <<"stepper_z">>}
       THEN Raise(st1, "Unknown stepper")
       ELSE IF kin = "corexy" /\ params \in {<<"stepper_x">>, <<"stepper_y">>}
       THEN LET source1 == TrapqAxisName("axis_x")
                source2 == TrapqAxisName("axis_y")
                r1 == AmSetupDataset(st1, source1)
                r2 == AmSetupDataset(r1.st, source2)
            IN IF ~r1.ok THEN r1
               ELSE IF ~r2.ok THEN r2
               ELSE Return(r2.st,
                      NewAnalyzer(obj, "kin", source1, source2,
                                  IF params = <<"stepper_x">> THEN "corexy_plus"
                                  ELSE "corexy_minus"))
       ELSE LET source1 == TrapqAxisName(CASE params = <<"stepper_x">> -> "axis_x"
                                           [] params = <<"stepper_y">> -> "axis_y"
                                           [] OTHER -> "axis_z")
                r1 == AmSetupDataset(st1, source1)
            IN IF ~r1.ok THEN r1
               ELSE Return(r1.st, NewAnalyzer(obj, "kin", source1, <<>>, "passthrough"))

\* GenDeviation.__init__(amanager, params)
GenDeviationInit(st, params) ==
    LET obj == st.lm.next_obj
        st1 == [st EXCEPT !.lm.next_obj = @ + 1]
        parts == SplitOn(params, "-")
    IN IF Len(parts) # 2
       THEN Raise(st1, "Invalid deviation")
       ELSE LET r1 == AmSetupDataset(st1, parts[1])
                r2 == AmSetupDataset(r1.st, parts[2])
            IN IF ~r1.ok THEN r1
               ELSE IF ~r2.ok THEN r2
               ELSE Return(r2.st,
                           NewAnalyzer(obj, "deviation", parts[1], parts[2], "deviation"))

\* AnalyzerManager.setup_dataset(name)
AmSetupDataset(st, name0) ==
    LET name == Strip(name0)
        got == LookupDataset(st.am, name)
        nparts == SplitOn(name, ":")
        kind == PartKey(nparts[1])
        params == Join(Tail(nparts), ":")
    IN IF got.found THEN Return(st, got.val)
       ELSE IF kind \in DOMAIN LogHandlers
       THEN LET r == LmSetupDataset(st, name) IN
            IF ~r.ok THEN r ELSE Register(r.st, "raw", name, r.hdl)
       ELSE IF kind \notin AHandlers
       THEN Raise(st, "Unknown dataset")
       ELSE LET r == CASE kind = "derivative" -> GenDerivativeInit(st, params)
                       [] kind = "kin" -> GenKinematicPositionInit(st, params)
                       [] OTHER -> GenDeviationInit(st, params)
            IN IF ~r.ok THEN r ELSE Register(r.st, "gen", name, r.hdl)

---------------------------------------------------------------------------
(* Initial values shared by the specifications *)

EmptyFile == <<GzipHeader>>

\* JsonDispatcher.__init__ (queues, last_read_time, is_eof)
DispatcherInit ==
    /\ queues = [k \in {StatusId} |-> <<>>]
    /\ last_read_time = 0
    /\ is_eof = FALSE

\* the status snapshot {} of a LogManager before setup_index
EmptyStatus == [toolhead_ept |-> Absent, toolhead_pt |-> Absent, kinematics |-> ""]

\* LogManager.__init__
LogManagerInit ==
    lm = [initial_start_time |-> 0, start_time |-> 0, active_handlers |-> <<>>,
          initial_status |-> EmptyStatus, next_obj |-> 1]

\* AnalyzerManager.__init__
AnalyzerManagerInit ==
    am = [raw_datasets |-> <<>>, gen_datasets |-> <<>>, datasets |-> <<>>]

---------------------------------------------------------------------------
(* Specification SpecReader: one JsonLogReader over an arbitrary byte      *)
(* stream cut into arbitrary compressed units; pull_msg and seek are       *)
(* called in any order.                                                    *)

\* seek() calls of one behaviour of SpecReader
MaxSeeks == 1

ReaderAlphabet == {ETX, ParamBase, Junk}

RECURSIVE Sum(_)
Sum(ns) == IF ns = <<>> THEN 0 ELSE Head(ns) + Sum(Tail(ns))

\* the stream cut into units of the given lengths
RECURSIVE CutUnits(_, _)
CutUnits(stream, lens) ==
    IF lens = <<>> THEN <<>>
    ELSE <<DataUnit(SubSeq(stream, 1, Head(lens)))>>
         \o CutUnits(SubSeq(stream, Head(lens) + 1, Len(stream)), Tail(lens))

\* every byte stream of up to MaxBytes bytes in every cut into up to MaxUnits
\* units of 0..MaxUnitLen bytes
ReaderFiles ==
    {<<GzipHeader>> \o CutUnits(c[1], c[2]) :
        c \in {x \in SeqsUpTo(ReaderAlphabet, MaxBytes)
                        \X SeqsUpTo(0..MaxUnitLen, MaxUnits) : Sum(x[2]) = Len(x[1])}}

\* the decompressed bytes of the file from unit offset pos on
StreamFrom(file, pos) == Inflate(SubSeq(file, pos + 1, Len(file)))

\* offsets a seek may name: unit boundaries after the gzip header at which
\* the decompressed stream is at a frame boundary
SyncPoints(file) ==
    {p \in 1..Len(file) :
        LET before == Inflate(SubSeq(file, 1, p))
        IN before = <<>> \/ before[Len(before)] = ETX}

InitReader ==
    /\ \E f \in ReaderFiles : log_reader = NewReader(f)
    /\ index_reader = NewReader(EmptyFile)
    /\ DispatcherInit /\ LogManagerInit /\ AnalyzerManagerInit
    /\ call = [op |-> "init"]
    /\ hist = [returned |-> <<>>, seeks |-> 0, seek_pos |-> 0]

\* a call of log_reader.pull_msg()
ReaderPullStep ==
    LET out == ReaderPullMsg(log_reader) IN
    /\ log_reader' = out.reader
    /\ call' = [op |-> "pull", result |-> out.result]
    /\ hist' = IF out.result = None THEN hist
               ELSE [hist EXCEPT !.returned = Append(@, out.result)]
    /\ UNCHANGED <<index_reader, queues, last_read_time, is_eof, lm, am>>

\* a call of log_reader.seek(pos)
ReaderSeekStep ==
    /\ hist.seeks < MaxSeeks
    /\ \E pos \in SyncPoints(log_reader.file) :
          /\ log_reader' = ReaderSeek(log_reader, pos)
          /\ call' = [op |-> "seek", pos |-> pos]
          /\ hist' = [returned |-> <<>>, seeks |-> hist.seeks + 1, seek_pos |-> pos]
    /\ UNCHANGED <<index_reader, queues, last_read_time, is_eof, lm, am>>

NextReader == ReaderPullStep \/ ReaderSeekStep

SpecReader == InitReader /\ [][NextReader]_vars

---------------------------------------------------------------------------
(* Claims about JsonLogReader (checked under SpecReader) *)

\* the 0x03-terminated frames of a byte stream, found by one scan; the bytes
\* after the last 0x03 are no frame
RECURSIVE ScanFrames(_, _)
ScanFrames(stream, cur) ==
    IF stream = <<>> THEN <<>>
    ELSE IF Head(stream) = ETX THEN <<cur>> \o ScanFrames(Tail(stream), <<>>)
    ELSE ScanFrames(Tail(stream), Append(cur, Head(stream)))

FramesOf(stream) == ScanFrames(stream, <<>>)

IsWellFormed(frame) == JsonLoads(frame) # ParseError

\* what the call that consumes a frame gives: the parsed object, or the
\* error of the malformed-frame path
RECURSIVE Outcomes(_)
Outcomes(frames) ==
    IF frames = <<>> THEN <<>>
    ELSE <<IF IsWellFormed(Head(frames)) THEN JsonLoads(Head(frames)) ELSE NameError>>
         \o Outcomes(Tail(frames))

RECURSIVE ParsedWellFormed(_)
ParsedWellFormed(frames) ==
    IF frames = <<>> THEN <<>>
    ELSE (IF IsWellFormed(Head(frames)) THEN <<JsonLoads(Head(frames))>> ELSE <<>>)
         \o ParsedWellFormed(Tail(frames))

WholeStream == StreamFrom(log_reader.file, 0)

\* C5 (as claimed): a frame that fails to parse is skipped: the pull_msg call
\* does not fail, and the calls return the well-formed frames of the stream
\* in order (None at end of source).
C5_MalformedFrameSkipped ==
    (hist.seeks = 0 /\ call.op = "pull") =>
        /\ call.result.kind \in {"msg", "index", "none"}
        /\ IsPrefix(hist.returned, ParsedWellFormed(FramesOf(WholeStream)))
        /\ (call.result = None =>
                hist.returned = ParsedWellFormed(FramesOf(WholeStream)))

\* C6: whatever the cut of the byte stream into read blocks, successive
\* pull_msg calls consume the 0x03-terminated frames of the whole stream in
\* order, each exactly once (a well-formed frame is returned parsed), and once
\* the source is exhausted every call returns None.
C6_FramesIndependentOfBlocks ==
    hist.seeks = 0 =>
        /\ IsPrefix(hist.returned, Outcomes(FramesOf(WholeStream)))
        /\ ((call.op = "pull" /\ call.result = None) =>
                /\ hist.returned = Outcomes(FramesOf(WholeStream))
                /\ log_reader.pos = Len(log_reader.file))

\* C6 witness: the source was exhausted after two or more frames, one of them
\* well-formed, over a file with an empty block and a block that ends inside a
\* frame.
C6_Witness ==
    /\ hist.seeks = 0 /\ call.op = "pull" /\ call.result = None
    /\ Len(hist.returned) >= 2
    /\ \E i \in 1..Len(hist.returned) : hist.returned[i].kind = "msg"
    /\ \E i \in 2..Len(log_reader.file) : log_reader.file[i].out = <<>>
    /\ \E i \in 2..Len(log_reader.file) :
          LET o == log_reader.file[i].out IN o # <<>> /\ o[Len(o)] # ETX

\* C7 (as claimed): after seek(offset) the calls return exactly the frames
\* that begin at offset; nothing buffered before the seek is returned or
\* prepended.
C7_SeekReturnsFramesAtOffset ==
    hist.seeks > 0 =>
        /\ IsPrefix(hist.returned,
                    Outcomes(FramesOf(StreamFrom(log_reader.file, hist.seek_pos))))
        /\ ((call.op = "pull" /\ call.result = None) =>
                hist.returned =
                    Outcomes(FramesOf(StreamFrom(log_reader.file, hist.seek_pos))))

---------------------------------------------------------------------------
(* Specification SpecDispatch: a JsonDispatcher over an arbitrary main     *)
(* log; handlers are added and records pulled in any order.                *)

\* frames of the main log
MaxFrames == 2
\* greatest time stamp and greatest requested time
MaxTime == 2

QByte(id) == QBase + (CHOOSE i \in 1..Len(QTable) : QTable[i] = id) - 1

\* the frames the i-th record of the main log can be; its params are i
MainFrames(i) ==
    {<<QByte(id), ParamBase + i>> : id \in {StatusId, TrapqId, StepqId, OtherId}}
    \cup {<<QByte(StatusId), ParamBase + i, TimeBase + t>> : t \in 0..MaxTime}
    \cup {<<Junk>>}

\* the bytes of a sequence of frames, each ended by 0x03
RECURSIVE EncodeFrames(_)
EncodeFrames(frames) ==
    IF frames = <<>> THEN <<>>
    ELSE Head(frames) \o <<ETX>> \o EncodeFrames(Tail(frames))

\* a compressed file of a byte stream: the gzip header, then units of n bytes
RECURSIVE Chunks(_, _)
Chunks(stream, n) ==
    IF Len(stream) <= n THEN <<DataUnit(stream)>>
    ELSE <<DataUnit(SubSeq(stream, 1, n))>> \o Chunks(SubSeq(stream, n + 1, Len(stream)), n)

FileOf(stream) == <<GzipHeader>> \o Chunks(stream, MaxUnitLen)

\* the logs of n frames whose i-th frame is one of Frames(i)
RECURSIVE FrameSeqs(_, _)
FrameSeqs(Frames(_), n) ==
    IF n = 0 THEN {<<>>}
    ELSE {Append(fs, f) : fs \in FrameSeqs(Frames, n - 1), f \in Frames(n)}

MainLogs ==
    UNION {FrameSeqs(MainFrames, n) : n \in 0..MaxFrames}

\* the queue ids handlers ask for
HandlerIds == {TrapqId, StepqId}

InitDispatch ==
    /\ \E fs \in MainLogs : log_reader = NewReader(FileOf(EncodeFrames(fs)))
    /\ index_reader = NewReader(EmptyFile)
    /\ DispatcherInit /\ LogManagerInit /\ AnalyzerManagerInit
    /\ call = [op |-> "init"]
    /\ hist = [delivered |-> [k \in {StatusId} |-> <<>>],
               reg_at |-> [k \in {StatusId} |-> 0],
               added |-> {},
               consumed |-> 0]

\* a call of jdispatch.add_handler(msg_id)
AddHandlerStep ==
    \E msg_id \in HandlerIds :
        /\ queues' = AddHandler(queues, msg_id)
        /\ call' = [op |-> "add_handler", msg_id |-> msg_id]
        /\ hist' = [hist EXCEPT
                        !.delivered = IF msg_id \in DOMAIN @ THEN @
                                      ELSE @ @@ (msg_id :> <<>>),
                        !.reg_at = IF msg_id \in DOMAIN @ THEN @
                                   ELSE @ @@ (msg_id :> hist.consumed),
                        !.added = @ \cup {msg_id}]
        /\ UNCHANGED <<log_reader, index_reader, last_read_time, is_eof, lm, am>>

\* the frames log_reader.pull_msg() consumed, by the readings of one call
FramesRead(reads) == Cardinality({i \in 1..Len(reads) : reads[i].got # None})

\* a call of jdispatch.pull_msg(req_time, msg_id) by a handler, for its own
\* msg_id (no handler pulls the status queue)
PullMsgStep ==
    \E req_time \in 0..MaxTime, msg_id \in DOMAIN queues \ {StatusId} :
        LET d == [reader |-> log_reader, queues |-> queues,
                  last_read_time |-> last_read_time, is_eof |-> is_eof,
                  reads |-> <<>>]
            out == DispatcherPullMsg(d, req_time, msg_id)
        IN /\ log_reader' = out.d.reader
           /\ queues' = out.d.queues
           /\ last_read_time' = out.d.last_read_time
           /\ is_eof' = out.d.is_eof
           /\ call' = [op |-> "pull_msg", req_time |-> req_time, msg_id |-> msg_id,
                       result |-> out.result, reads |-> out.d.reads,
                       pre_queue |-> queues[msg_id], pre_lrt |-> last_read_time]
           /\ hist' = [hist EXCEPT
                          !.delivered[msg_id] =
                              IF out.result.kind = "params"
                              THEN Append(@, out.result.params) ELSE @,
                          !.consumed = @ + FramesRead(out.d.reads)]
           /\ UNCHANGED <<index_reader, lm, am>>

NextDispatch == AddHandlerStep \/ PullMsgStep

SpecDispatch == InitDispatch /\ [][NextDispatch]_vars

---------------------------------------------------------------------------
(* Claims about JsonDispatcher (checked under SpecDispatch) *)

MainFramesOfLog == FramesOf(WholeStream)

\* the params of the well-formed records with q = id among frames lo+1..hi
RECURSIVE RecordsOf(_, _, _)
RecordsOf(id, lo, hi) ==
    IF hi <= lo THEN <<>>
    ELSE LET m == JsonLoads(MainFramesOfLog[hi]) IN
         RecordsOf(id, lo, hi - 1)
         \o (IF m.kind = "msg" /\ m.q = id THEN <<m.params>> ELSE <<>>)

\* C1: for every registered queue id, what the pulls on id returned so far,
\* followed by what is still buffered for id, is exactly the stream's records
\* with q = id that were read after id was registered, in stream order; so
\* the returned values are a prefix of that subsequence, with no record
\* repeated, skipped, reordered or given to another queue's pull.
C1_PerQueueOrder ==
    \A id \in DOMAIN queues :
        /\ hist.delivered[id] \o queues[id] = RecordsOf(id, hist.reg_at[id], hist.consumed)
        /\ IsPrefix(hist.delivered[id],
                    RecordsOf(id, hist.reg_at[id], Len(MainFramesOfLog)))

\* C1 witness: the two handlers' records were delivered in the order opposite
\* to the stream's: the stepq record is served from its buffer after the pull
\* that read past it returned the later trapq record.
C1_Witness ==
    /\ call.op = "pull_msg" /\ call.msg_id = StepqId /\ call.reads = <<>>
    /\ hist.delivered[StepqId] = <<1>>
    /\ TrapqId \in DOMAIN queues /\ hist.delivered[TrapqId] = <<MaxFrames>>

\* the source has nothing more to give
SourceAtEnd ==
    log_reader.pos = Len(log_reader.file) /\ Len(log_reader.msgs) = 1

\* C2: pull_msg returns None only with id's queue empty and the source at its
\* end or the watermark beyond req_time + 1; with a non-empty queue it
\* returns the head without reading; and it never reads while the watermark
\* is beyond req_time + 1.
C2_PullContract ==
    call.op = "pull_msg" =>
        /\ call.result = None =>
              /\ queues[call.msg_id] = <<>>
              /\ (SourceAtEnd /\ is_eof) \/ last_read_time > call.req_time + 1
        /\ call.pre_queue # <<>> =>
              /\ call.result = Returned(Head(call.pre_queue))
              /\ call.reads = <<>>
        /\ \A i \in 1..Len(call.reads) : ~(call.reads[i].lrt > call.req_time + 1)

\* C2 witness: a pull read a status record into the stream, then stopped at
\* the lookahead cutoff with frames still unread.
C2_Witness ==
    /\ call.op = "pull_msg" /\ call.result = None
    /\ call.reads # <<>> /\ ~SourceAtEnd
    /\ last_read_time > call.req_time + 1

\* C3 (as claimed): records are buffered only for queue ids registered
\* through add_handler.
C3_OnlyRegisteredBuffered ==
    \A id \in DOMAIN queues : queues[id] # <<>> => id \in hist.added

\* the estimated_print_time values of the status records among the first n
\* frames of the main log
RECURSIVE StatusTimes(_)
StatusTimes(n) ==
    IF n = 0 THEN <<>>
    ELSE LET m == JsonLoads(MainFramesOfLog[n]) IN
         StatusTimes(n - 1)
         \o (IF m.kind = "msg" /\ m.q = StatusId /\ m.toolhead_ept # Absent
             THEN <<m.toolhead_ept>> ELSE <<>>)

StatusTimesNonDecreasing ==
    LET ts == StatusTimes(Len(MainFramesOfLog)) IN
    \A i \in 1..Len(ts) : \A j \in i..Len(ts) : ts[i] <= ts[j]

WatermarkIsLastStatusTime ==
    LET ts == StatusTimes(hist.consumed) IN
    last_read_time = IF ts = <<>> THEN 0 ELSE ts[Len(ts)]

\* the watermark did not decrease during the last pull_msg call: not from
\* the call's start to any of its reads, nor between reads, nor to its end
NoDecreaseInCall ==
    call.op = "pull_msg" =>
        LET w == <<call.pre_lrt>> \o [i \in 1..Len(call.reads) |-> call.reads[i].lrt]
                 \o <<last_read_time>>
        IN \A i \in 1..Len(w) : \A j \in i..Len(w) : w[i] <= w[j]

\* C4 (as claimed): over any stream the watermark never decreases, and every
\* status record read sets it to that record's time.
C4_WatermarkNeverDecreases == NoDecreaseInCall /\ WatermarkIsLastStatusTime

\* C4 (amended): the watermark is the estimated_print_time of the last status
\* record read that carries one (0 before the first); it never decreases over
\* a stream whose status records carry non-decreasing times.
C4_WatermarkFollowsStatus ==
    /\ WatermarkIsLastStatusTime
    /\ StatusTimesNonDecreasing => NoDecreaseInCall

\* C4 witness: two status records with increasing times were read.
C4_Witness ==
    /\ StatusTimesNonDecreasing /\ hist.consumed = 2
    /\ StatusTimes(2) = <<1, MaxTime>> /\ last_read_time = MaxTime

---------------------------------------------------------------------------
(* Specification SpecSeek: a LogManager over an arbitrary index log;       *)
(* setup_index, then seek_time (as motan_graph.main calls them).           *)

\* records of the index log
MaxIndex == 3

\* the i-th index record: any estimated_print_time, print_time absent or
\* any, and the file position of the i-th checkpoint of the main log
IndexFrames(i, fp0) ==
    {<<IdxByte, TimeBase + e, PosBase + fp0 + i - 1>> : e \in 0..MaxTime}
    \cup {<<IdxByte, TimeBase + e, TimeBase + MaxTime, PosBase + fp0 + i - 1>> :
                e \in 0..MaxTime}

IndexLogs ==
    UNION {FrameSeqs(LAMBDA i : IndexFrames(i, fp0), n) :
           <<n, fp0>> \in (1..MaxIndex) \X {0, 1}}

\* a main log with a checkpoint after every record
CheckpointedMainLog ==
    <<GzipHeader>>
    \o [i \in 1..(MaxIndex + 1) |-> DataUnit(<<QByte(TrapqId), ParamBase + i, ETX>>)]

InitSeek ==
    /\ \E fs \in IndexLogs : index_reader = NewReader(FileOf(EncodeFrames(fs)))
    /\ log_reader = NewReader(CheckpointedMainLog)
    /\ DispatcherInit /\ LogManagerInit /\ AnalyzerManagerInit
    /\ call = [op |-> "init"]
    /\ hist = [index_read |-> <<>>, seeks |-> 0]

\* lmanager.setup_index()
SetupIndexStep ==
    /\ call.op = "init"
    /\ LET out == SetupIndex(lm, index_reader) IN
          /\ lm' = out.lm
          /\ index_reader' = out.index_reader
          /\ call' = [op |-> "setup_index", ok |-> out.ok]
          /\ hist' = [hist EXCEPT !.index_read = Append(@, out.fmsg)]
    /\ UNCHANGED <<log_reader, queues, last_read_time, is_eof, am>>

\* lmanager.seek_time(req_time)
SeekTimeStep ==
    /\ call.op # "init" /\ call.ok
    /\ hist.seeks < MaxSeeks
    /\ \E req_time \in 0..(MaxTime + 1) :
          LET out == SeekTime(lm, index_reader, log_reader, req_time) IN
          /\ lm' = out.lm
          /\ index_reader' = out.index_reader
          /\ log_reader' = out.log_reader
          /\ call' = [op |-> "seek_time", req_time |-> req_time, ok |-> out.ok,
                      read |-> out.read, pre_pos |-> log_reader.pos,
                      pre_read |-> Len(hist.index_read)]
          /\ hist' = [index_read |-> hist.index_read \o out.read,
                      seeks |-> hist.seeks + 1]
    /\ UNCHANGED <<queues, last_read_time, is_eof, am>>

NextSeek == SetupIndexStep \/ SeekTimeStep

SpecSeek == InitSeek /\ [][NextSeek]_vars

---------------------------------------------------------------------------
(* Claims about LogManager.seek_time (checked under SpecSeek) *)

\* the records of the whole index log
IndexRecords == Outcomes(FramesOf(StreamFrom(index_reader.file, 0)))

IndexTimesNonDecreasing ==
    \A i \in 1..Len(IndexRecords) : \A j \in i..Len(IndexRecords) :
        EffectiveTime(IndexRecords[i]) <= EffectiveTime(IndexRecords[j])

\* the index records from..n whose effective time is at or before target
AtOrBefore(from, target) ==
    {i \in from..Len(IndexRecords) : EffectiveTime(IndexRecords[i]) <= target}

\* what a seek_time call that aims at target, over the index records from
\* on, leaves behind: the index was read strictly forward, each record once,
\* up to and including the first record after target; the main reader is at
\* the file position of the last record at or before target, and stays where
\* it was when there is none (or that position is 0)
SeekOutcome(from, target) ==
    LET n == Len(IndexRecords)
        ok == AtOrBefore(from, target)
        after == {i \in from..n : i \notin ok}
        stop == IF after = {} THEN n ELSE CHOOSE i \in after : \A j \in after : i <= j
        last == CHOOSE i \in ok : \A j \in ok : j <= i
    IN /\ hist.index_read = SubSeq(IndexRecords, 1, stop)
       /\ log_reader.pos =
              IF ok # {} /\ IndexRecords[last].file_position # 0
              THEN IndexRecords[last].file_position ELSE call.pre_pos
       /\ log_reader.pos # call.pre_pos =>
              \E i \in ok : IndexRecords[i].file_position = log_reader.pos

\* C8 (as claimed): seek_time(t) leaves the main reader at the file position
\* of the last index record whose effective time is at or before
\* initial_start_time + t, after a forward scan that stops at the first
\* record after that time.
C8_SeeksToRequestedTime ==
    (call.op = "seek_time" /\ IndexTimesNonDecreasing) =>
        SeekOutcome(1, lm.initial_start_time + call.req_time)

\* C8 (amended): the time aimed at is one time unit before the requested
\* time, but not before initial_start_time, and only the records the call
\* itself reads count (setup_index has consumed the first).
C8_SeeksToLookbackTime ==
    (call.op = "seek_time" /\ IndexTimesNonDecreasing) =>
        SeekOutcome(call.pre_read + 1,
                    IF call.req_time >= 1 THEN lm.initial_start_time + call.req_time - 1
                    ELSE lm.initial_start_time)

\* C8 witness: the scan passed a record at or before the target, moved the
\* main reader to its file position, and stopped at a later record.
C8_Witness ==
    /\ call.op = "seek_time" /\ IndexTimesNonDecreasing
    /\ Len(call.read) >= 2 /\ Len(hist.index_read) = Len(IndexRecords)
    /\ log_reader.pos # 0 /\ log_reader.pos # call.pre_pos
    /\ log_reader.pos = call.read[Len(call.read) - 1].file_position
    /\ EffectiveTime(call.read[Len(call.read)]) > lm.start_time - 1

---------------------------------------------------------------------------
(* Specification SpecSetup: setup_index, then AnalyzerManager.setup_dataset *)
(* with names in any order (as motan_graph.plot_motion calls it).           *)

\* setup_dataset calls of one behaviour
MaxSetups == 3

DatasetNames ==
    {<<"trapq", ":", "toolhead", ":", "velocity">>,
     <<"trapq", ":", "toolhead", ":", "axis_x">>,
     <<" ", "trapq", ":", "toolhead", ":", "velocity", " ">>,
     <<"trapq", ":", "toolhead", ":", "bogus">>,
     <<"stepq", ":", "stepper_x">>,
     <<"adxl345", ":", "probe", ":", "x">>,
     <<"kin", ":", "stepper_x">>,
     <<"derivative", ":", "trapq", ":", "toolhead", ":", "axis_x">>,
     <<"deviation", ":", "stepq", ":", "stepper_x", "-", "kin", ":", "stepper_x">>,
     <<"bogus", ":", "thing">>}

InitSetup ==
    /\ \E k \in 0..(Len(KinTable) - 1) :
          index_reader = NewReader(FileOf(EncodeFrames(
                             << <<IdxByte + k, TimeBase, PosBase>> >>)))
    /\ log_reader = NewReader(CheckpointedMainLog)
    /\ DispatcherInit /\ LogManagerInit /\ AnalyzerManagerInit
    /\ call = [op |-> "init"]
    /\ hist = [index_read |-> <<>>, created |-> <<>>, add_calls |-> <<>>,
               first_ret |-> <<>>, setups |-> 0]

\* amanager.setup_dataset(name) with one of the names, at most max times
SetupDataset(names, max) ==
    /\ call.op # "init" /\ hist.setups < max
    /\ \E name \in names :
          LET st == [lm |-> lm, queues |-> queues, am |-> am,
                     created |-> hist.created, add_calls |-> hist.add_calls,
                     first_ret |-> hist.first_ret]
              out == AmSetupDataset(st, name)
          IN /\ lm' = out.st.lm
             /\ queues' = out.st.queues
             /\ am' = out.st.am
             /\ call' = [op |-> "setup_dataset", name |-> name, ok |-> out.ok,
                         hdl |-> out.hdl, err |-> out.err,
                         pre |-> [lm |-> lm, queues |-> queues, am |-> am]]
             /\ hist' = [hist EXCEPT !.created = out.st.created,
                                     !.add_calls = out.st.add_calls,
                                     !.first_ret = out.st.first_ret,
                                     !.setups = @ + 1]
    /\ UNCHANGED <<log_reader, index_reader, last_read_time, is_eof>>

\* amanager.setup_dataset(name)
SetupDatasetStep == SetupDataset(DatasetNames, MaxSetups)

NextSetup == SetupIndexStep \/ SetupDatasetStep

SpecSetup == InitSetup /\ [][NextSetup]_vars

---------------------------------------------------------------------------
(* Claims about setup_dataset (checked under SpecSetup) *)

\* the message key of a raw dataset name: its first two parts
MsgKeyOf(name) == Join(SubSeq(SplitOn(name, ":"), 1, 2), ":")

CountOf(seq, x) == Cardinality({i \in 1..Len(seq) : seq[i] = x})

\* C9: at most one handler object is ever constructed per message key; raw
\* datasets with the same message key are served by that one object;
\* add_handler is called exactly once for the key; and every key of
\* active_handlers is a dispatcher queue.
C9_OneHandlerPerKey ==
    /\ \A i, j \in 1..Len(hist.created) :
          hist.created[i].msg_id = hist.created[j].msg_id => i = j
    /\ \A k \in DictKeys(lm.active_handlers) :
          /\ CountOf(hist.add_calls, k) = 1
          /\ k \in DOMAIN queues
    /\ \A i, j \in 1..Len(am.raw_datasets) :
          LET di == am.raw_datasets[i]
              dj == am.raw_datasets[j]
          IN MsgKeyOf(di.key) = MsgKeyOf(dj.key) =>
                /\ di.val.func.hdl = dj.val.func.hdl
                /\ di.val.func.hdl = DictGet(lm.active_handlers, MsgKeyOf(di.key)).val.obj

\* C9 witness: two datasets of different names share one trapq handler, and
\* a handler of another key exists beside it.
C9_Witness ==
    /\ Len(lm.active_handlers) = 2
    /\ \E i, j \in 1..Len(am.raw_datasets) :
          /\ am.raw_datasets[i].key # am.raw_datasets[j].key
          /\ am.raw_datasets[i].val.func.hdl = am.raw_datasets[j].val.func.hdl

Registered(a, name) == name \in DictKeys(a.raw_datasets) \cup DictKeys(a.gen_datasets)

\* C10: a setup_dataset call with a name that is already registered (directly
\* or as the source of a generated dataset) returns the handler the
\* registering call returned, and leaves raw_datasets, gen_datasets, the output
\* arrays, the LogManager's handlers and the dispatcher's queues as they were.
C10_SetupIdempotent ==
    (call.op = "setup_dataset" /\ Registered(call.pre.am, Strip(call.name))) =>
        /\ call.ok
        /\ call.hdl = DictGet(hist.first_ret, Strip(call.name)).val
        /\ am = call.pre.am
        /\ lm = call.pre.lm
        /\ queues = call.pre.queues

\* C10 witness: the second call names the trapq axis dataset that the first
\* call registered as the source of a generated dataset.
C10_Witness ==
    /\ call.op = "setup_dataset" /\ hist.setups = 2 /\ call.ok
    /\ call.name = TrapqAxisName("axis_x")
    /\ Len(call.pre.am.gen_datasets) = 1
    /\ Registered(call.pre.am, call.name)

---------------------------------------------------------------------------
(* Specification SpecSetupErrors: setup_index, then setup_dataset with     *)
(* names that a handler rejects or should reject, among valid ones.        *)

\* setup_dataset calls of one behaviour of SpecSetupErrors
MaxBadSetups == 2

SuffixNames ==
    {<<"adxl345", ":", "probe", ":", "x">>,
     <<"adxl345", ":", "probe", ":", "x", "y">>,
     <<"adxl345", ":", "probe", ":", "q">>,
     <<"trapq", ":", "toolhead", ":", "bogus">>,
     <<"trapq", ":", "toolhead">>,
     <<"stepq", ":", "stepper_q">>,
     <<"kin", ":", "stepper_q">>,
     <<"kin", ":", "stepper_x">>,
     <<"bogus", ":", "thing">>,
     <<"deviation", ":", "stepq", ":", "stepper_x">>,
     <<"deviation", ":", "stepq", ":", "stepper_x", "-", "bogus", ":", "thing">>,
     <<"deviation", ":", "stepq", ":", "stepper_x", "-", "kin", ":", "stepper_x",
       "-", "kin", ":", "stepper_y">>,
     <<"derivative", ":", "kin", ":", "stepper_x">>}

\* amanager.setup_dataset(name), name among SuffixNames
SetupBadDatasetStep == SetupDataset(SuffixNames, MaxBadSetups)

NextSetupErrors == SetupIndexStep \/ SetupBadDatasetStep

SpecSetupErrors == InitSetup /\ [][NextSetupErrors]_vars

---------------------------------------------------------------------------
(* Claims about setup-time errors (checked under SpecSetupErrors) *)

\* the selections a trapq name may end with
TrapqSelections ==
    {"velocity", "accel"}
    \cup {"axis_" \o a \o k : a \in {"x", "y", "z"}, k \in {"", "_velocity", "_accel"}}

KnownSteppers == {<<"stepper_x">>, <<"stepper_y">>, <<"stepper_z">>}

\* the name has the parts its kind takes, and the last of them is not a
\* recognised value
InvalidSuffix(name) ==
    LET parts == SplitOn(Strip(name), ":")
        kind == PartKey(parts[1])
    IN \/ kind = "adxl345" /\ Len(parts) = 3
          /\ parts[3] \notin {<<"x">>, <<"y">>, <<"z">>}
       \/ kind = "trapq" /\ Len(parts) = 3
          /\ PartKey(parts[3]) \notin TrapqSelections
       \/ kind \in {"kin", "stepq"} /\ Len(parts) = 2
          /\ parts[2] \notin KnownSteppers

\* C11: a setup_dataset call whose name ends in a suffix that is not a
\* recognised value of its kind (adxl345: exactly x, y or z; trapq: one of
\* the selections; kin and stepq: a known stepper) raises the error.
C11_InvalidSuffixRaises ==
    (call.op = "setup_dataset" /\ InvalidSuffix(call.name)) => ~call.ok

\* the cases of a name that the setup must reject
SetupErrorCase(name, kin) ==
    LET parts == SplitOn(Strip(name), ":")
        kind == PartKey(parts[1])
    IN \/ kind \notin (DOMAIN LogHandlers) \cup AHandlers
       \/ kind \in DOMAIN LogHandlers /\ Len(parts) # LogHandlers[kind].ParametersTotal
       \/ kind = "deviation" /\ Len(SplitOn(Join(Tail(parts), ":"), "-")) # 2
       \/ kind = "kin" /\ kin \notin {"cartesian", "corexy"}

SetupErrors ==
    {"Unknown dataset", "Invalid number of parameters", "Invalid deviation",
     "Unsupported kinematics"}

\* C12: a setup_dataset call whose name has an unknown kind, the wrong number
\* of parameters, a deviation expression that is not two names, or a kin
\* dataset under unsupported kinematics raises the error; after it the name is
\* in neither raw_datasets nor gen_datasets, has no output array, and no
\* output array holds data.
C12_SetupErrors ==
    (call.op = "setup_dataset"
     /\ SetupErrorCase(call.name, lm.initial_status.kinematics)) =>
        /\ ~call.ok
        /\ call.err \in SetupErrors
        /\ ~Registered(am, Strip(call.name))
        /\ ~DictGet(am.datasets, Strip(call.name)).found
        /\ \A i \in 1..Len(am.datasets) : am.datasets[i].val = <<>>

\* C12 witness: under delta kinematics a deviation with three sources is
\* rejected after an earlier call with a kin dataset was
C12_Witness ==
    /\ call.op = "setup_dataset" /\ ~call.ok
    /\ call.err = "Invalid deviation"
    /\ lm.initial_status.kinematics = "delta"
    /\ hist.setups = 2
    /\ am.datasets = <<>>

---------------------------------------------------------------------------
(* Specification SpecQuery: a main log that carries blocks of one queue    *)
(* and status records; one raw dataset of that queue is set up and its     *)
(* query function is called with non-decreasing times, as                  *)
(* AnalyzerManager.generate_datasets calls it.                             *)

\* records in the main log of SpecQuery
MaxQFrames == 2
\* calls of the query function in one behaviour
MaxQueries == 2
\* the latest time asked for
MaxQTime == 4

\* the times the status records of these logs carry: early, and far enough
\* ahead of every query for the lookahead cutoff
QStatusTimes == {1, MaxQTime + 2}

QueueOf(cls) ==
    CASE cls = "trapq" -> TrapqId
      [] cls = "stepq" -> StepqId
      [] cls = "adxl345" -> OtherId
      [] OTHER -> AngleId

BlocksOf(cls) ==
    CASE cls = "trapq" -> TrapqBlocks
      [] cls = "stepq" -> StepqBlocks
      [] cls = "adxl345" -> Adxl345Blocks
      [] OTHER -> AngleBlocks

\* the frames a record of the log can be: a block of the queue, or a status
\* record with a time
QueryFrames(cls) ==
    {<<QByte(QueueOf(cls)), ParamBase + k>> : k \in 1..Len(BlocksOf(cls))}
    \cup {<<QByte(StatusId), ParamBase, TimeBase + t>> : t \in QStatusTimes}

QueryLogs(cls) ==
    UNION {FrameSeqs(LAMBDA i : QueryFrames(cls), n) : n \in 0..MaxQFrames}

\* the dataset names of each queue
QueryNames(cls) ==
    CASE cls = "trapq" ->
            {TrapqAxisName("axis_x"), TrapqAxisName("axis_x_velocity"),
             TrapqAxisName("axis_x_accel"), TrapqAxisName("velocity"),
             TrapqAxisName("accel")}
      [] cls = "stepq" -> {StepqId}
      [] cls = "adxl345" -> {OtherId \o <<":", "x">>}
      [] OTHER -> {AngleId}

InitQuery ==
    /\ \E cls \in DOMAIN LogHandlers :
          /\ \E fs \in QueryLogs(cls) :
                log_reader = NewReader(FileOf(EncodeFrames(fs)))
          /\ hist = [cls |-> cls, queries |-> 0, last_t |-> 1]
    /\ index_reader = NewReader(EmptyFile)
    /\ DispatcherInit /\ LogManagerInit /\ AnalyzerManagerInit
    /\ call = [op |-> "init"]

\* amanager.setup_dataset(name) of the one raw dataset
QuerySetupStep ==
    /\ call.op = "init"
    /\ \E name \in QueryNames(hist.cls) :
          LET st == [lm |-> lm, queues |-> queues, am |-> am, created |-> <<>>,
                     add_calls |-> <<>>, first_ret |-> <<>>]
              out == AmSetupDataset(st, name)
          IN /\ lm' = out.st.lm
             /\ queues' = out.st.queues
             /\ am' = out.st.am
             /\ call' = [op |-> "setup_dataset", name |-> name, ok |-> out.ok]
    /\ UNCHANGED <<log_reader, index_reader, last_read_time, is_eof, hist>>

\* the handler object a query function is bound to
HandlerOf(l, func) ==
    LET i == CHOOSE j \in 1..Len(l.active_handlers) :
                 l.active_handlers[j].val.obj = func.hdl
    IN l.active_handlers[i].val

\* hdl['func'](req_time) of the raw dataset, at a time not before the last
\* one asked; no call follows one that raised
QueryStep ==
    /\ call.op \in {"setup_dataset", "query"}
    /\ call.op = "query" => call.result.kind = "value"
    /\ hist.queries < MaxQueries
    /\ \E i \in 1..Len(am.raw_datasets), req_time \in hist.last_t..MaxQTime :
          LET func == am.raw_datasets[i].val.func
              hobj == HandlerOf(lm, func)
              d == [reader |-> log_reader, queues |-> queues,
                    last_read_time |-> last_read_time, is_eof |-> is_eof,
                    reads |-> <<>>]
              out == HandlerQuery(hobj, d, func, req_time)
          IN /\ lm' = [lm EXCEPT !.active_handlers = DictSet(@, hobj.msg_id, out.hobj)]
             /\ log_reader' = out.d.reader
             /\ queues' = out.d.queues
             /\ last_read_time' = out.d.last_read_time
             /\ is_eof' = out.d.is_eof
             /\ call' = [op |-> "query", cls |-> hobj.cls, func |-> func,
                         req_time |-> req_time, result |-> out.result,
                         pulls |-> out.pulls, found |-> out.found,
                         lookups |-> out.lookups, pre |-> hobj.state]
             /\ hist' = [hist EXCEPT !.queries = @ + 1, !.last_t = req_time]
    /\ UNCHANGED <<index_reader, am>>

NextQuery == QuerySetupStep \/ QueryStep

SpecQuery == InitQuery /\ [][NextQuery]_vars

---------------------------------------------------------------------------
(* Claims about the handlers' query functions (checked under SpecQuery) *)

\* the number v is n / d
ValEq(v, n, d) == v.kind = "value" /\ v.num * d = n * v.den

\* the handler object of the one dataset, after the call
QueriedHandler == HandlerOf(lm, call.func).state

\* the dispatcher has nothing more for the handler: the log is read to its
\* end and the handler's queue is empty
SourceExhausted(cls) == is_eof /\ queues[QueueOf(cls)] = <<>>

\* C18: for the adxl345 and the angle handler, a query between two
\* bracketing samples returns their linear interpolation, and a query past
\* the last sample of an exhausted stream returns that sample's value (angle:
\* times angle_dist), zero if there never was a sample.
C18_InterpolateThenHold ==
    (call.op = "query" /\ call.cls \in {"adxl345", "angle"}
     /\ call.result.kind = "value") =>
        LET h == QueriedHandler
            t == call.req_time
            adxl == call.cls = "adxl345"
            next_time == IF adxl THEN h.next_accel_time ELSE h.next_angle_time
            last_time == IF adxl THEN h.last_accel_time ELSE h.last_angle_time
            next == IF adxl THEN h.next_accel[call.func.axis + 1] ELSE h.next_angle
            last == IF adxl THEN h.last_accel[call.func.axis + 1] ELSE h.last_angle
            scale == IF adxl THEN [num |-> 1, den |-> 1] ELSE AngleDist
        IN /\ (last_time < t /\ t <= next_time) =>
                ValEq(call.result,
                      (last * (next_time - last_time) + (t - last_time) * (next - last))
                        * scale.num,
                      (next_time - last_time) * scale.den)
           /\ (t > next_time /\ SourceExhausted(call.cls)) =>
                ValEq(call.result, next * scale.num, scale.den)

\* C19: every call of a handler's query function returns a value (its
\* fallback when the source has no more data for the time asked), whatever
\* blocks the stream carries.
C19_QueryReturnsValue ==
    call.op = "query" => call.result.kind = "value"

\* the moves a trapq query could look at: the handler's block from the
\* cursor on, then the blocks its pulls returned
RECURSIVE PulledMoves(_)
PulledMoves(pulls) ==
    IF pulls = <<>> THEN <<>>
    ELSE (IF Head(pulls).kind = "params" THEN TrapqBlocks[Head(pulls).params].data
          ELSE <<>>) \o PulledMoves(Tail(pulls))

KnownMoves ==
    SubSeq(call.pre.cur_data, call.pre.data_pos + 1, Len(call.pre.cur_data))
    \o PulledMoves(call.pulls)

\* the first of the moves that ends at or after t, the last one if none does
ExpectedMove(moves, t) ==
    IF \E i \in 1..Len(moves) : moves[i].print_time + moves[i].move_t >= t
    THEN moves[CHOOSE i \in 1..Len(moves) :
                  /\ moves[i].print_time + moves[i].move_t >= t
                  /\ \A j \in 1..(i-1) : moves[j].print_time + moves[j].move_t < t]
    ELSE moves[Len(moves)]

\* the distance travelled along a move after the time e (doubled)
TwiceDistance(m, e) == (2 * m.start_v + m.accel * e) * e

\* C20: over moves with non-decreasing print_time, a trapq query at t finds
\* the first move at or after the cursor that ends at or after t (the last
\* known move if none does, which is when the dispatcher had no further
\* block for t); velocity and acceleration are zero when t is
\* outside [print_time, print_time + move_t] of that move; the position is
\* that of the move at the elapsed time clamped to [0, move_t].
C20_FindMove ==
    (call.op = "query" /\ call.cls = "trapq" /\ call.result.kind = "value"
     /\ \A i \in 1..(Len(KnownMoves) - 1) :
            KnownMoves[i].print_time <= KnownMoves[i+1].print_time) =>
        LET t == call.req_time
            m == ExpectedMove(KnownMoves, t)
            a == call.func.axis
            e == IF t <= m.print_time THEN 0
                 ELSE IF t >= m.print_time + m.move_t THEN m.move_t
                 ELSE t - m.print_time
        IN /\ call.found.move = m
           /\ m.print_time + m.move_t < t =>
                 call.pulls # <<>> /\ call.pulls[Len(call.pulls)] = None
           /\ (call.func.method # "pull_axis_position"
               /\ (t < m.print_time \/ t > m.print_time + m.move_t)) =>
                 ValEq(call.result, 0, 1)
           /\ call.func.method = "pull_axis_position" =>
                 ValEq(call.result,
                       2 * m.start_pos[a + 1] + m.axes_r[a + 1] * TwiceDistance(m, e), 2)

\* C20 witness: a velocity query falls in the gap before the second move of
\* a block it pulled
C20_Witness ==
    /\ call.op = "query" /\ call.cls = "trapq"
    /\ call.func.method = "pull_axis_velocity"
    /\ call.pulls # <<>> /\ call.pulls[1].kind = "params"
    /\ call.found.move.print_time > call.req_time
    /\ call.found.move # KnownMoves[1]
    /\ call.result = Value(0, 1)

---------------------------------------------------------------------------
(* AnalyzerManager.generate_datasets and the analyzers' generate_data.  An *)
(* output array is a sequence of numbers Value(n, d).                      *)

KeyError == [kind |-> "keyerror"]

\* a - b, a + b and a * (1 / k) on numbers
VSub(a, b) == Value(a.num * b.den - b.num * a.den, a.den * b.den)
VAdd(a, b) == Value(a.num * b.den + b.num * a.den, a.den * b.den)
VOver(a, k) == Value(a.num, a.den * k)

\* what generate_data gives: an array, or the error it raised; data1 and
\* data2 (history) are the source arrays it read
Generated(data, data1, data2) ==
    [ok |-> TRUE, data |-> data, err |-> None, data1 |-> data1, data2 |-> data2]
GenFailed(err, data1, data2) ==
    [ok |-> FALSE, data |-> <<>>, err |-> err, data1 |-> data1, data2 |-> data2]

\* [(data[i+1] - data[i]) * inv_seg_time for i in range(len(data)-1)]
Differences(data, segment_time) ==
    [i \in 1..(Len(data) - 1) |-> VOver(VSub(data[i + 1], data[i]), segment_time)]

\* GenDerivative.generate_data, given the source array
GenDerivativeData(data, segment_time) ==
    IF Differences(data, segment_time) = <<>>
    THEN GenFailed(IndexError, data, <<>>)
    ELSE Generated(<<Differences(data, segment_time)[1]>>
                     \o Differences(data, segment_time), data, <<>>)

\* mutant: the deviation adds its sources
ZipMinus_Plus(data1, data2) ==
    [i \in 1..Min(Len(data1), Len(data2)) |-> VAdd(data1[i], data2[i])]

\* [d1 - d2 for d1, d2 in zip(data1, data2)]
ZipMinus(data1, data2) ==
    [i \in 1..Min(Len(data1), Len(data2)) |-> VSub(data1[i], data2[i])]

\* [d1 + d2 for d1, d2 in zip(data1, data2)]
ZipPlus(data1, data2) ==
    [i \in 1..Min(Len(data1), Len(data2)) |-> VAdd(data1[i], data2[i])]

\* hdl.generate_data() with the arrays found for the sources; src1 and src2
\* are what datasets.get gives for self.source1 and self.source2
GenerateFrom(a, hdl, src1, src2) ==
    IF ~src1.found THEN GenFailed(KeyError, <<>>, <<>>)
    ELSE IF hdl.generate_data = "derivative"
    THEN GenDerivativeData(src1.val, a.segment_time)
    ELSE IF hdl.generate_data = "passthrough"
    THEN Generated(src1.val, src1.val, <<>>)
    ELSE IF ~src2.found THEN GenFailed(KeyError, src1.val, <<>>)
    ELSE CASE hdl.generate_data = "corexy_plus" ->
                Generated(ZipPlus(src1.val, src2.val), src1.val, src2.val)
           [] OTHER ->
                Generated(ZipMinus(src1.val, src2.val), src1.val, src2.val)

\* datasets[name] of an output array
ArrayOf(a, name) ==
    IF \E i \in 1..Len(a.datasets) : a.datasets[i].key = name
    THEN [found |-> TRUE,
          val |-> a.datasets[CHOOSE i \in 1..Len(a.datasets) :
                                a.datasets[i].key = name].val]
    ELSE [found |-> FALSE, val |-> <<>>]

\* hdl.generate_data()
GenerateData(a, hdl) ==
    GenerateFrom(a, hdl, ArrayOf(a, hdl.source1), ArrayOf(a, hdl.source2))

\* "for name, hdl in self.gen_datasets.items()" from the i-th item on; g is
\* [am, err, evals]: evals (history) lists every generate_data call made
RECURSIVE GenPass(_, _)
RECURSIVE GenPassStore(_, _, _)

GenPassStore(g, i, r) ==
    LET name == g.am.gen_datasets[i].key
        ev == [name |-> name, hdl |-> g.am.gen_datasets[i].val, out |-> r,
               arrays |-> g.am.datasets]
    IN IF ~r.ok
       THEN [g EXCEPT !.err = r.err, !.evals = Append(@, ev)]
       ELSE GenPass([g EXCEPT !.am.datasets = DictSet(@, name, r.data),
                              !.evals = Append(@, ev)],
                    i + 1)

GenPass(g, i) ==
    IF i > Len(g.am.gen_datasets) THEN g
    ELSE GenPassStore(g, i, GenerateData(g.am, g.am.gen_datasets[i].val))

\* "for dl, func in list_funcs: dl.append(func(t))" from the i-th raw dataset
\* on; s is [lm, am, d, err, sampled]
RECURSIVE SampleAll(_, _, _)
RECURSIVE SampleStore(_, _, _, _)

SampleStore(s, t, i, out) ==
    LET name == s.am.raw_datasets[i].key
        s1 == [s EXCEPT !.lm.active_handlers = DictSet(@, out.hobj.msg_id, out.hobj),
                        !.d = out.d]
    IN IF out.result.kind # "value"
       THEN [s1 EXCEPT !.err = out.result]
       ELSE SampleAll([s1 EXCEPT !.am.datasets =
                          DictSet(@, name, Append(ArrayOf(s.am, name).val, out.result))],
                      t, i + 1)

SampleAll(s, t, i) ==
    IF i > Len(s.am.raw_datasets) THEN s
    ELSE SampleStore(s, t, i,
            HandlerQuery(HandlerOf(s.lm, s.am.raw_datasets[i].val.func), s.d,
                         s.am.raw_datasets[i].val.func, t))

\* "t += self.segment_time" and the time the functions are then called with
NextSample(t, segment_time) == t + segment_time

\* "while t < end_time"; s.sampled (history) lists the times sampled
RECURSIVE RawPass(_, _, _)
RECURSIVE RawPassNext(_, _, _)

RawPassNext(s, t, end_time) ==
    IF s.err # None THEN s ELSE RawPass(s, t, end_time)

RawPass(s, t, end_time) ==
    IF ~(t < end_time) THEN s
    ELSE RawPassNext(
            SampleAll([s EXCEPT !.sampled = Append(@, NextSample(t, s.am.segment_time))],
                      NextSample(t, s.am.segment_time), 1),
            t + s.am.segment_time, end_time)

\* the state after the generated pass g
GenerateMerge(s, g) == [s EXCEPT !.am = g.am, !.err = g.err] @@ [evals |-> g.evals]

\* the generated pass, unless the raw pass raised
GenerateRest(s) ==
    IF s.err # None THEN s @@ [evals |-> <<>>]
    ELSE GenerateMerge(s, GenPass([am |-> s.am, err |-> None, evals |-> <<>>], 1))

\* AnalyzerManager.generate_datasets() on the managers l and a and the
\* dispatcher d
GenerateDatasets(l, a, d) ==
    GenerateRest(RawPass([lm |-> l, am |-> a, d |-> d, err |-> None, sampled |-> <<>>],
                         l.start_time, l.start_time + a.duration))

\* times = [seg_time * i for i in range(len(datasets[dataset]))] of
\* plot_motion: the time, from the start time on, given to each element
PlotTimes(a, array) == [i \in 1..Len(array) |-> a.segment_time * (i - 1)]

---------------------------------------------------------------------------
(* Specification SpecGenerate: motan_graph's run over a fixed main log:    *)
(* setup_index, the datasets of the graphs set up one after the other,     *)
(* then generate_datasets once.                                            *)

\* setup_dataset calls before generate_datasets
MaxGenSetups == 2
\* the --duration option, in seconds
MaxDuration == 3
\* the --segment-time option, in seconds
MaxSegment == 2

\* the main log: trapq and stepq blocks in time order, then a status record
GenerateLog ==
    << <<QByte(TrapqId), ParamBase + 1>>, <<QByte(StepqId), ParamBase + 1>>,
       <<QByte(TrapqId), ParamBase + 2>>, <<QByte(StepqId), ParamBase + 2>>,
       <<QByte(StatusId), ParamBase, TimeBase + 6>> >>

DeviationName == <<"deviation", ":">> \o StepqId \o <<"-", "kin", ":", "stepper_x">>

GenNames ==
    {TrapqAxisName("axis_x"),
     TrapqAxisName("velocity"),
     <<"kin", ":", "stepper_x">>,
     <<"derivative", ":">> \o TrapqAxisName("axis_x"),
     DeviationName,
     <<"deviation", ":">> \o StepqId \o <<" ", "-", " ", "kin", ":", "stepper_x">>,
     <<"deviation", ":", "kin", ":", "stepper_x", "-">> \o StepqId,
     <<"derivative", ":">> \o DeviationName}

\* AnalyzerManager.__init__(lmanager, segment_time) and set_duration(duration)
AnalyzerManagerNew(segment_time, duration) ==
    [raw_datasets |-> <<>>, gen_datasets |-> <<>>, datasets |-> <<>>,
     segment_time |-> segment_time, duration |-> duration]

InitGenerate ==
    /\ \E k \in 0..(Len(KinTable) - 1) :
          index_reader = NewReader(FileOf(EncodeFrames(
                             << <<IdxByte + k, TimeBase, PosBase>> >>)))
    /\ log_reader = NewReader(FileOf(EncodeFrames(GenerateLog)))
    /\ DispatcherInit /\ LogManagerInit
    /\ \E segment_time \in 1..MaxSegment, duration \in 0..MaxDuration :
          am = AnalyzerManagerNew(segment_time, duration)
    /\ call = [op |-> "init"]
    /\ hist = [index_read |-> <<>>, created |-> <<>>, add_calls |-> <<>>,
               first_ret |-> <<>>, setups |-> 0]

\* amanager.setup_dataset(dataset) of plot_motion; a call that raises ends
\* the run
GenSetupStep ==
    /\ call.op \in {"setup_index", "setup_dataset"}
    /\ call.op = "setup_dataset" => call.ok
    /\ SetupDataset(GenNames, MaxGenSetups)

\* amanager.generate_datasets() of plot_motion
GenerateStep ==
    /\ call.op = "setup_dataset" /\ call.ok
    /\ LET d == [reader |-> log_reader, queues |-> queues,
                 last_read_time |-> last_read_time, is_eof |-> is_eof,
                 reads |-> <<>>]
           out == GenerateDatasets(lm, am, d)
       IN /\ lm' = out.lm
          /\ am' = out.am
          /\ log_reader' = out.d.reader
          /\ queues' = out.d.queues
          /\ last_read_time' = out.d.last_read_time
          /\ is_eof' = out.d.is_eof
          /\ call' = [op |-> "generate", ok |-> out.err = None, err |-> out.err,
                      sampled |-> out.sampled, evals |-> out.evals,
                      pre |-> [lm |-> lm, am |-> am]]
    /\ UNCHANGED <<index_reader, hist>>

NextGenerate == SetupIndexStep \/ GenSetupStep \/ GenerateStep

SpecGenerate == InitGenerate /\ [][NextGenerate]_vars

---------------------------------------------------------------------------
(* Claims about generate_datasets (checked under SpecGenerate) *)

\* the output arrays of the raw datasets after the call
RawArrays == [i \in 1..Len(am.raw_datasets) |-> ArrayOf(am, am.raw_datasets[i].key).val]

\* the points start_time + k * segment_time of [start_time, start_time + duration)
GridPoints(a) == {k \in 0..a.duration : k * a.segment_time < a.duration}

\* C13: generate_datasets samples every raw dataset once per point
\* start_time + k * segment_time (k = 0, 1, ...) of
\* [start_time, start_time + duration), so all raw arrays have one length
\* and element i of an array is the value at the time plot_motion gives it.
C13_SamplesOnGrid ==
    call.op = "generate" =>
        LET a == call.pre.am
            start_time == call.pre.lm.start_time
        IN /\ Len(call.sampled) = Cardinality(GridPoints(a))
           /\ \A i \in 1..Len(RawArrays) : Len(RawArrays[i]) = Len(call.sampled)
           /\ \A i \in 1..Len(call.sampled) :
                 call.sampled[i] = start_time + PlotTimes(a, call.sampled)[i]

\* the names an analyzer declares as its sources
SourcesOf(hdl) == {hdl.source1, hdl.source2} \ {<<>>}

\* C14: every generated dataset is evaluated exactly once, in registration
\* order, after the raw pass, and when it is evaluated each of its declared
\* sources has its final array (a raw one: one element per time sampled).
C14_GeneratedInOrder ==
    call.op = "generate" =>
        /\ [i \in 1..Len(call.evals) |-> call.evals[i].name]
             = [i \in 1..Len(am.gen_datasets) |-> am.gen_datasets[i].key]
        /\ \A i \in 1..Len(call.evals) :
              LET ev == call.evals[i] IN
              \A src \in SourcesOf(ev.hdl) :
                 /\ ArrayOf([datasets |-> ev.arrays], src).found
                 /\ ArrayOf([datasets |-> ev.arrays], src).val = ArrayOf(am, src).val
                 /\ src \in DictKeys(am.raw_datasets) =>
                       Len(ArrayOf(am, src).val) = Len(call.sampled)

IsConstant(data) == \A i, j \in 1..Len(data) : ValEq(data[i], data[j].num, data[j].den)

\* C15: GenDerivative.generate_data returns an array as long as its source,
\* for every length a run produces (0 and 1 too); element i >= 1 is
\* (x[i] - x[i-1]) / segment_time, element 0 repeats element 1, and the
\* derivative of a constant array is zero throughout.
C15_DerivativeKeepsLength ==
    call.op = "generate" =>
        \A k \in 1..Len(call.evals) :
            LET ev == call.evals[k]
                x == ev.out.data1
                y == ev.out.data
                seg == am.segment_time
            IN (ev.hdl.cls = "derivative" /\ ev.out.err # KeyError) =>
                /\ ev.out.ok
                /\ Len(y) = Len(x)
                /\ \A i \in 2..Len(x) :
                      ValEq(y[i], x[i].num * x[i-1].den - x[i-1].num * x[i].den,
                            x[i].den * x[i-1].den * seg)
                /\ Len(y) >= 2 => y[1] = y[2]
                /\ IsConstant(x) => \A i \in 1..Len(y) : ValEq(y[i], 0, 1)

\* C16: GenDeviation.generate_data returns source1[i] - source2[i] for every
\* i, as many elements as either source has, and with the sources swapped it
\* returns the negated elements.
C16_DeviationAntisymmetric ==
    call.op = "generate" =>
        \A k \in 1..Len(call.evals) :
            LET ev == call.evals[k]
                d1 == ev.out.data1
                d2 == ev.out.data2
                y == ev.out.data
                swapped == ZipMinus(d2, d1)
            IN (ev.hdl.cls = "deviation" /\ ev.out.ok) =>
                /\ Len(y) = Len(d1) /\ Len(y) = Len(d2) /\ Len(swapped) = Len(y)
                /\ \A i \in 1..Len(y) :
                      /\ ValEq(y[i], d1[i].num * d2[i].den - d2[i].num * d1[i].den,
                               d1[i].den * d2[i].den)
                      /\ ValEq(swapped[i], -y[i].num, y[i].den)

\* C16 witness: a deviation of three elements, not all zero, was generated
\* from two different source arrays
C16_Witness ==
    /\ call.op = "generate" /\ call.ok
    /\ \E k \in 1..Len(call.evals) :
          /\ call.evals[k].hdl.cls = "deviation"
          /\ Len(call.evals[k].out.data) = 3
          /\ \E i \in 1..3 : call.evals[k].out.data[i].num # 0

KinName == <<"kin", ":", "stepper_x">>

\* the first setup_dataset call of the run named the deviation of the scenario
DeviationScenario ==
    /\ hist.setups = 1
    /\ \/ call.op = "setup_dataset" /\ call.name = DeviationName
       \/ /\ call.op = "generate"
          /\ Len(am.gen_datasets) = 2 /\ am.gen_datasets[2].key = DeviationName

\* C17 as stated: the scenario registers exactly two datasets beside the
\* deviation, stepq:stepper_x and kin:stepper_x.
C17_TwoUnderlying ==
    (DeviationScenario /\ call.op = "setup_dataset") =>
        /\ call.ok
        /\ DictKeys(am.datasets) \ {DeviationName} = {StepqId, KinName}

\* C17: setting up deviation:stepq:stepper_x-kin:stepper_x on an empty
\* registry raises under kinematics other than cartesian and corexy, and
\* otherwise registers the deviation, stepq:stepper_x, kin:stepper_x and the
\* trapq:toolhead axis datasets kin:stepper_x reads (axis_x; under corexy
\* axis_y too); generate_datasets then gives one deviation array, as long as
\* the arrays of stepq:stepper_x and kin:stepper_x.
C17_DeviationScenario ==
    LET kin == lm.initial_status.kinematics IN
    /\ (DeviationScenario /\ call.op = "setup_dataset") =>
          IF kin \in {"cartesian", "corexy"}
          THEN /\ call.ok
               /\ DictKeys(am.raw_datasets)
                    = {StepqId, TrapqAxisName("axis_x")}
                      \cup (IF kin = "corexy" THEN {TrapqAxisName("axis_y")} ELSE {})
               /\ [i \in 1..Len(am.gen_datasets) |-> am.gen_datasets[i].key]
                    = <<KinName, DeviationName>>
               /\ DictKeys(am.datasets)
                    = DictKeys(am.raw_datasets) \cup {KinName, DeviationName}
          ELSE ~call.ok /\ ~Registered(am, DeviationName)
    /\ (DeviationScenario /\ call.op = "generate") =>
          /\ call.ok
          /\ Len(ArrayOf(am, DeviationName).val) = Len(call.sampled)
          /\ Len(ArrayOf(am, StepqId).val) = Len(call.sampled)
          /\ Len(ArrayOf(am, KinName).val) = Len(call.sampled)

\* C17 witness: the scenario under corexy, generated over three grid points
C17_Witness ==
    /\ DeviationScenario /\ call.op = "generate"
    /\ lm.initial_status.kinematics = "corexy"
    /\ Len(ArrayOf(am, DeviationName).val) = 3

---------------------------------------------------------------------------
(* Claims about the step queue's buffer and smoothing (checked under       *)
(* SpecQuery)                                                              *)

\* the step s with its time counted in 1/k of a millisecond
Finer(s, k) == [s EXCEPT !.time = k * @]

\* the value of the bracket (last, next) at 1/k of a millisecond before the
\* time of next
Before(last, next, k) ==
    Smoothed(Finer(last, k), Finer(next, k), k * next.time - 1, k * SmoothTime)

\* the value the bracket (last, next) approaches as t rises to the time of
\* next: each branch of the smoothing is affine in t, so the limit is the
\* extrapolation of the values at 1/k and 1/(2k) of a millisecond before it
LeftLimit(last, next, k) ==
    VSub(VAdd(Before(last, next, 2 * k), Before(last, next, 2 * k)),
         Before(last, next, k))

\* the value the bracket (last, next) returns at the time of last
ValueAt(last, next) == Smoothed(last, next, last.time, SmoothTime)

\* the resolutions the limit is taken at
Fineness == {1, 2}

\* the position is continuous at the step mid of the consecutive steps prev,
\* mid, next, and is mid's half position there
ContinuousAt(prev, mid, next) ==
    (prev.time < mid.time /\ mid.time < next.time) =>
        /\ ValEq(ValueAt(mid, next), mid.half_pos, 1)
        /\ \A k \in Fineness :
              LET lim == LeftLimit(prev, mid, k) IN
              /\ lim.kind = "value"
              /\ ValEq(ValueAt(mid, next), lim.num, lim.den)

\* the query pulled a block and the element _pull_block retained is still the
\* first of the buffer
AnchoredPull ==
    /\ call.pulls # <<>>
    /\ QueriedHandler.step_data[1] = call.pre.step_data[Len(call.pre.step_data)]

\* C21: the step queue's position is continuous at every step boundary: for
\* consecutive steps with strictly increasing times the value approached as t
\* rises to a step time from the preceding bracket equals the value returned
\* at that time from the following bracket, which is the step's half position;
\* this holds within a buffer, whichever smoothing branch the brackets take,
\* and across a block boundary where the retained anchor is the left bracket;
\* a query at the time of its left bracket's step returns the half position.
C21_StepContinuity ==
    (call.op = "query" /\ call.cls = "stepq" /\ call.result.kind = "value") =>
        LET sd == QueriedHandler.step_data
            pre == call.pre.step_data
            p == QueriedHandler.data_pos
        IN /\ \A i \in 1..(Len(sd) - 2) : ContinuousAt(sd[i], sd[i + 1], sd[i + 2])
           /\ (AnchoredPull /\ Len(pre) >= 2) =>
                 ContinuousAt(pre[Len(pre) - 1], sd[1], sd[2])
           /\ (sd[p + 1].time = Ms(call.req_time) /\ sd[p + 1].time < sd[p + 2].time) =>
                 ValEq(call.result, sd[p + 1].half_pos, 1)

\* C21 witness: a query at the time of the last step of the buffer pulled the
\* next block, and returned that step's half position from the bracket whose
\* left end is the retained anchor
C21_Witness ==
    /\ call.op = "query" /\ call.cls = "stepq" /\ call.result.kind = "value"
    /\ AnchoredPull
    /\ Len(call.pre.step_data) >= 2
    /\ LET sd == QueriedHandler.step_data
           pre == call.pre.step_data
       IN /\ QueriedHandler.data_pos = 0
          /\ 0 < pre[Len(pre) - 1].time
          /\ pre[Len(pre) - 1].time < sd[1].time
          /\ sd[1].time = Ms(call.req_time)
          /\ sd[1].time < sd[2].time
          /\ sd[1].half_pos # sd[1].pos
          /\ ValEq(call.result, sd[1].half_pos, 1)

\* the bracket lookup step_data[data_pos + 1] of the evaluation e has an
\* element to read, after the element at data_pos
LookupInBounds(e) == Len(e.step_data) >= 2 /\ e.data_pos + 1 < Len(e.step_data)

\* from one evaluation of the bracket lookup to the next the cursor moved on
\* in the same buffer, or _pull_block made a new buffer that starts with the
\* last element of the old one, with the cursor at 0
LookupFollows(e, f) ==
    IF f.step_data = e.step_data
    THEN f.data_pos > e.data_pos
    ELSE /\ f.data_pos = 0
         /\ f.step_data # <<>>
         /\ f.step_data[1] = e.step_data[Len(e.step_data)]

\* C22: at every evaluation of the bracket lookup of HandleStepQ.pull_position
\* the buffer step_data holds at least two elements and data_pos + 1 is a
\* valid index; _pull_block keeps exactly the last element of the previous
\* buffer as the first element of the new buffer and resets data_pos to 0,
\* and data_pos otherwise only increases.
C22_AnchoredBuffer ==
    (call.op = "query" /\ call.cls = "stepq") =>
        /\ \A i \in 1..Len(call.lookups) : LookupInBounds(call.lookups[i])
        /\ \A i \in 1..(Len(call.lookups) - 1) :
              LookupFollows(call.lookups[i], call.lookups[i + 1])

---------------------------------------------------------------------------
(* Claims about the trapq handler's buffer (checked under SpecQuery) *)

\* the fields of the one trapq handler, once it is set up
TrapqHandler == lm.active_handlers[1].val.state

\* the zero sentinel Move
SentinelMove == Move(0, 0, 0, 0, <<0, 0, 0>>, <<0, 0, 0>>)

\* the moves the query had looked at when it made its last pull: the buffer
\* from the cursor on, and the blocks of its earlier pulls
MovesBeforeLastPull ==
    SubSeq(call.pre.cur_data, call.pre.data_pos + 1, Len(call.pre.cur_data))
    \o PulledMoves(SubSeq(call.pulls, 1, Len(call.pulls) - 1))

\* no pull of this or of an earlier query has delivered a block
NoMoveDelivered ==
    /\ call.pre.cur_data = <<SentinelMove>>
    /\ \A i \in 1..Len(call.pulls) : call.pulls[i] = None

\* C23: after any sequence of queries over any stream of trapq blocks
\* cur_data is non-empty and data_pos is a valid index into it; the buffer
\* starts as the zero sentinel Move with print_time 0; a new block is pulled
\* only when the cursor has passed the last buffered Move; and until the
\* first Move has been delivered every position, velocity and acceleration
\* query returns zero.
C23_TrapqBuffer ==
    (hist.cls = "trapq" /\ call.op # "init" /\ lm.active_handlers # <<>>) =>
        /\ TrapqHandler.cur_data # <<>>
        /\ TrapqHandler.data_pos \in 0..(Len(TrapqHandler.cur_data) - 1)
        /\ call.op = "setup_dataset" =>
              TrapqHandler = [cur_data |-> <<SentinelMove>>, data_pos |-> 0]
        /\ (call.op = "query" /\ call.pulls # <<>>) =>
              \A i \in 1..Len(MovesBeforeLastPull) :
                 MovesBeforeLastPull[i].print_time + MovesBeforeLastPull[i].move_t
                    < call.req_time
        /\ (call.op = "query" /\ NoMoveDelivered) => ValEq(call.result, 0, 1)

---------------------------------------------------------------------------
(* Specification SpecLookahead: a dispatcher with the trapq and the stepq  *)
(* handler registered (LogManager.setup_dataset registers a handler's      *)
(* queue before the handler's first pull), over an arbitrary main log.     *)
(* Each handler pulls its own queue, at a time the watermark is more than  *)
(* a second ahead of or at a time raised to within a second of the         *)
(* watermark; generate_datasets queries every handler at ever later times, *)
(* so each handler's raised pull is taken again and again.                 *)

\* records in the main log of SpecLookahead
MaxAheadFrames == 3
\* the greatest time stamp and the greatest requested time
MaxAheadTime == 2

\* the time the status records of these logs carry: far enough ahead for
\* the cutoff of a pull at time 0
AheadStatusTimes == {MaxAheadTime}

\* the frames the i-th record of the log can be; its params are i
AheadFrames(i) ==
    {<<QByte(id), ParamBase + i>> : id \in HandlerIds}
    \cup {<<QByte(StatusId), ParamBase + i, TimeBase + t>> : t \in AheadStatusTimes}
    \cup {<<Junk>>}

AheadLogs ==
    UNION {FrameSeqs(AheadFrames, n) : n \in 0..MaxAheadFrames}

\* frame k of the main log is a well-formed record of queue id
RecordFor(id, k) ==
    /\ k \in 1..Len(MainFramesOfLog)
    /\ JsonLoads(MainFramesOfLog[k]).kind = "msg"
    /\ JsonLoads(MainFramesOfLog[k]).q = id

InitLookahead ==
    /\ \E fs \in AheadLogs : log_reader = NewReader(FileOf(EncodeFrames(fs)))
    /\ index_reader = NewReader(EmptyFile)
    /\ queues = AddHandler(AddHandler([k \in {StatusId} |-> <<>>], TrapqId), StepqId)
    /\ last_read_time = 0
    /\ is_eof = FALSE
    /\ LogManagerInit /\ AnalyzerManagerInit
    /\ call = [op |-> "init"]
    /\ hist = [delivered |-> [k \in HandlerIds |-> <<>>], consumed |-> 0, cut |-> {}]

\* the state after a call pull_msg(req_time, id) that gave out; hist.cut
\* takes the records of id still unread when the call returned None
AheadPulled(out, id, req_time) ==
    /\ log_reader' = out.d.reader
    /\ queues' = out.d.queues
    /\ last_read_time' = out.d.last_read_time
    /\ is_eof' = out.d.is_eof
    /\ call' = [op |-> "pull_msg", req_time |-> req_time, msg_id |-> id,
                result |-> out.result, reads |-> out.d.reads,
                pre_queues |-> queues]
    /\ hist' = [hist EXCEPT
                   !.delivered[id] = IF out.result.kind = "params"
                                     THEN Append(@, out.result.params) ELSE @,
                   !.consumed = @ + FramesRead(out.d.reads),
                   !.cut = IF out.result # None THEN @
                           ELSE @ \cup {k \in 1..Len(MainFramesOfLog) :
                                          /\ k > hist.consumed + FramesRead(out.d.reads)
                                          /\ RecordFor(id, k)}]
    /\ UNCHANGED <<index_reader, lm, am>>

\* jdispatch.pull_msg(req_time, id) by the handler of queue id
AheadPull(id, req_time) ==
    AheadPulled(DispatcherPullMsg([reader |-> log_reader, queues |-> queues,
                                   last_read_time |-> last_read_time,
                                   is_eof |-> is_eof, reads |-> <<>>],
                                  req_time, id),
                id, req_time)

\* a pull at a time the watermark is more than a second ahead of
LowPull(id) ==
    \E req_time \in 0..MaxAheadTime :
        /\ req_time + 1 < last_read_time
        /\ AheadPull(id, req_time)

\* a pull at a time raised to within a second of the watermark
RaisedPull(id) ==
    \E req_time \in 0..MaxAheadTime :
        /\ req_time + 1 >= last_read_time
        /\ AheadPull(id, req_time)

LowPullStep == \E id \in HandlerIds : LowPull(id)

RaisedPullStep == \E id \in HandlerIds : RaisedPull(id)

NextLookahead == LowPullStep \/ RaisedPullStep

\* Each handler's raised pull is taken again and again.  RaisedPull(id) is
\* enabled in every state (a time within a second of the watermark exists,
\* and the call changes the call record), so this is WF_vars(RaisedPull(id))
\* with the enabledness left out.
SpecLookahead ==
    /\ InitLookahead /\ [][NextLookahead]_vars
    /\ \A id \in HandlerIds : []<><<RaisedPull(id)>>_vars

---------------------------------------------------------------------------
(* Claims about the lookahead cutoff (checked under SpecLookahead) *)

\* the last call was a pull for id that returned None at the cutoff
CutOff(id) ==
    /\ call.op = "pull_msg" /\ call.msg_id = id /\ call.result = None
    /\ last_read_time > call.req_time + 1

\* frame k is a record of id that has not been read yet
Unread(id, k) == k > hist.consumed /\ RecordFor(id, k)

\* a pull for id has returned the record of frame k
Delivered(id, k) ==
    \E i \in 1..Len(hist.delivered[id]) : hist.delivered[id][i] = k

\* the params of the records of id among what the reader gave in one call
RECURSIVE RoutedTo(_, _)
RoutedTo(id, reads) ==
    IF reads = <<>> THEN <<>>
    ELSE (IF Head(reads).got.kind = "msg" /\ Head(reads).got.q = id
          THEN <<Head(reads).got.params>> ELSE <<>>)
         \o RoutedTo(id, Tail(reads))

\* after a pull, every other registered queue holds what it held before,
\* followed by its records that the pull read
RoutedRecordsKept ==
    call.op = "pull_msg" =>
        \A id \in (DOMAIN queues) \ {call.msg_id} :
            queues[id] = call.pre_queues[id] \o RoutedTo(id, call.reads)

\* a pull returns None with records of its queue unread only at the cutoff
NoneOnlyAtCutoff ==
    \A id \in HandlerIds : \A k \in 1..MaxAheadFrames :
        (call.op = "pull_msg" /\ call.msg_id = id /\ call.result = None
         /\ Unread(id, k)) => CutOff(id)

\* C24: a lookahead cutoff never loses or permanently blocks a queue's data:
\* if pull_msg(req_time, id) returned None because last_read_time >
\* req_time + 1 while the stream still holds a record for id, then with the
\* pulls for id repeated at times raised to within a second of the watermark
\* that record is eventually returned to a pull for id; and the records a
\* pull read for other registered queues stay buffered, in order, for those
\* queues' own pulls.
C24_CutoffLosesNothing ==
    /\ \A id \in HandlerIds : \A k \in 1..MaxAheadFrames :
          (CutOff(id) /\ Unread(id, k)) ~> Delivered(id, k)
    /\ [](RoutedRecordsKept /\ NoneOnlyAtCutoff)

\* C24 witness: a trapq pull stopped at the cutoff after reading a stepq
\* record and a status record; a pull at a raised time then returned the
\* trapq record behind them, with the stepq record still buffered
C24_Witness ==
    /\ call.op = "pull_msg" /\ call.msg_id = TrapqId
    /\ call.result = Returned(MaxAheadFrames)
    /\ MaxAheadFrames \in hist.cut
    /\ call.reads # <<>>
    /\ queues[StepqId] = <<1>>
    /\ hist.delivered[StepqId] = <<>>

====
